---- MODULE Spec2Model ----
(***************************************************************************)
(* pyezsh command spine: CommandRegistry (app/commands.py), KeyMap         *)
(* (app/keys.py) and KeyRouter (app/keyrouter.py).                         *)
(*                                                                         *)
(* Python strings are TLA+ strings; a character is a string of length 1.   *)
(* Python's None is the value None below; an exception raised by a call    *)
(* is the "err" field of the record the call leaves in the variable last.  *)
(***************************************************************************)
EXTENDS Integers, Sequences, FiniteSets, TLC

VARIABLES
    commands,           \* CommandRegistry._commands: id -> Command
    shortcuts,          \* CommandRegistry._shortcuts: canonical shortcut -> id
    global_keymap,      \* KeyRouter.global_keymap / App.keymap: a KeyMap
    mode_keymaps,       \* KeyRouter.mode_keymaps: mode -> KeyMap
    component_keymaps,  \* KeyRouter.component_keymaps: component id -> KeyMap
    mode,               \* KeyRouter._mode
    focus_provider,     \* KeyRouter.focus_provider: None or the installed callable
    focus_id,           \* what the installed focus provider returns when called
    state,              \* CommandContext.state, read by the predicates
    calls,              \* the handlers invoked so far, in order
    keyrouter,          \* the host's KeyRouter (App.keyrouter), None before one is built
    telemetry,          \* the Telemetry object keyrouter was constructed with, if any
    sink,               \* MemorySink: the metrics and events emitted so far
    bind_calls,         \* FakeRegistry.calls: the bind_shortcut calls a recording registry got
    typed,              \* the shortcut string the caller composed: its parts and their separator
    last                \* the last call: operation, arguments, error, result

vars == <<commands, shortcuts, global_keymap, mode_keymaps, component_keymaps,
          mode, focus_provider, focus_id, state, calls, keyrouter, telemetry,
          sink, bind_calls, typed, last>>

None == "<None>"

\* An empty dict.
EmptyMap == [x \in {} |-> None]

\* Python truthiness of an Optional[str]: None and "" are falsy.
Truthy(v) == v # None /\ v # ""

-----------------------------------------------------------------------------
(* str methods used by the normalizers *)

LowerAlpha == "abcdefghijklmnopqrstuvwxyz"
UpperAlpha == "ABCDEFGHIJKLMNOPQRSTUVWXYZ"

Char(s, i) == SubSeq(s, i, i)

IsSpace(c) == c \in {" ", "\t"}

IsAlphaChar(c) == \E i \in 1..26 : c = Char(LowerAlpha, i) \/ c = Char(UpperAlpha, i)

UpperChar(c) ==
    IF \E i \in 1..26 : c = Char(LowerAlpha, i)
    THEN Char(UpperAlpha, CHOOSE i \in 1..26 : c = Char(LowerAlpha, i))
    ELSE c

RECURSIVE Upper(_)
Upper(s) == IF s = "" THEN "" ELSE UpperChar(Char(s, 1)) \o Upper(SubSeq(s, 2, Len(s)))

RECURSIVE LStrip(_)
LStrip(s) == IF s # "" /\ IsSpace(Char(s, 1)) THEN LStrip(SubSeq(s, 2, Len(s))) ELSE s

RECURSIVE RStrip(_)
RStrip(s) ==
    IF s # "" /\ IsSpace(Char(s, Len(s))) THEN RStrip(SubSeq(s, 1, Len(s) - 1)) ELSE s

Strip(s) == LStrip(RStrip(s))

\* str.split(sep) for a one-character sep: the pieces between the separators.
RECURSIVE SplitFrom(_, _, _, _)
SplitFrom(s, sep, i, cur) ==
    IF i > Len(s) THEN <<cur>>
    ELSE IF Char(s, i) = sep THEN <<cur>> \o SplitFrom(s, sep, i + 1, "")
    ELSE SplitFrom(s, sep, i + 1, cur \o Char(s, i))

Split(s, sep) == SplitFrom(s, sep, 1, "")

\* [p.strip() for p in pieces if p.strip()]
RECURSIVE StripParts(_)
StripParts(pieces) ==
    IF pieces = <<>> THEN <<>>
    ELSE (IF Strip(Head(pieces)) # "" THEN <<Strip(Head(pieces))>> ELSE <<>>)
         \o StripParts(Tail(pieces))

\* sep.join(parts)
RECURSIVE Join(_, _)
Join(parts, sep) ==
    IF parts = <<>> THEN ""
    ELSE IF Len(parts) = 1 THEN parts[1]
    ELSE parts[1] \o sep \o Join(Tail(parts), sep)

LowerChar(c) ==
    IF \E i \in 1..26 : c = Char(UpperAlpha, i)
    THEN Char(LowerAlpha, CHOOSE i \in 1..26 : c = Char(UpperAlpha, i))
    ELSE c

RECURSIVE Lower(_)
Lower(s) == IF s = "" THEN "" ELSE LowerChar(Char(s, 1)) \o Lower(SubSeq(s, 2, Len(s)))

\* s.startswith(p) and p in s
StartsWith(s, p) == Len(p) <= Len(s) /\ SubSeq(s, 1, Len(p)) = p

Contains(s, p) == \E i \in 0..(Len(s) - Len(p)) : SubSeq(s, i + 1, i + Len(p)) = p

\* The characters of the model's strings in code-point order, and the
\* comparison a < b of two str values.
CodeOrder == " ,-." \o UpperAlpha \o LowerAlpha

Ord(c) == CHOOSE i \in 1..Len(CodeOrder) : Char(CodeOrder, i) = c

RECURSIVE StrLess(_, _)
StrLess(a, b) ==
    IF b = "" THEN FALSE
    ELSE IF a = "" THEN TRUE
    ELSE IF Char(a, 1) # Char(b, 1) THEN Ord(Char(a, 1)) < Ord(Char(b, 1))
    ELSE StrLess(SubSeq(a, 2, Len(a)), SubSeq(b, 2, Len(b)))

-----------------------------------------------------------------------------
(* Shortcut normalization: commands.py *)

MOD_ORDER == <<"CTRL", "ALT", "SHIFT", "CMD">>

\* The modifier a part names, or None for a key token (commands.py 115-126,
\* keys.py 109-120: the two normalizers accept the same synonyms).
ModifierOf(up) ==
    IF up \in {"CONTROL", "CTRL"} THEN "CTRL"
    ELSE IF up \in {"OPTION", "ALT"} THEN "ALT"
    ELSE IF up = "SHIFT" THEN "SHIFT"
    ELSE IF up \in {"COMMAND", "CMD", "META"} THEN "CMD"
    ELSE None

\* Faulty variant: the modifiers are kept as the input has them, repeated
\* ones included.
OrderedModsAsTyped(mods) == mods

\* Faulty variant: the modifiers come out in the reverse of the order in
\* which the input first names them.
OrderedModsReversed(mods) ==
    LET first == SelectSeq([i \in DOMAIN mods |-> <<i, mods[i]>>],
                           LAMBDA p : \A j \in 1..(p[1] - 1) : mods[j] # p[2])
    IN  [i \in DOMAIN first |-> first[Len(first) + 1 - i][2]]

\* [m for m in _MOD_ORDER if m in modset]
OrderedMods(mods) ==
    LET modset == {mods[i] : i \in DOMAIN mods}
    IN  SelectSeq(MOD_ORDER, LAMBDA m : m \in modset)

\* The result of a call that may raise: err is None when it returned val.
Ok(v) == [err |-> None, val |-> v]
Raise(e) == [err |-> e, val |-> None]

\* The modifiers a sequence of upper-cased parts names, in input order, and
\* its key tokens (the loop bodies of both normalizers).
ModsOf(ups) ==
    LET modps == SelectSeq(ups, LAMBDA u : ModifierOf(u) # None)
    IN  [i \in DOMAIN modps |-> ModifierOf(modps[i])]

KeysOf(ups) == SelectSeq(ups, LAMBDA u : ModifierOf(u) = None)

UpperAll(parts) == [i \in DOMAIN parts |-> Upper(parts[i])]

\* normalize_shortcut, in the order of its statements; each stage is handed
\* the values computed so far.
\* Faulty variant: more than one key token is accepted and the first is used.
NormalizeJoinFirstKey(ordered_mods, keys) ==
    IF Len(keys) < 1 THEN Raise("ValueError")
    ELSE Ok(Join(ordered_mods \o <<keys[1]>>, "+"))

\* commands.py 130-136: order the modifiers, require one key, join.
NormalizeJoin(ordered_mods, keys) ==
    IF Len(keys) # 1 THEN Raise("ValueError")
    ELSE Ok(Join(ordered_mods \o <<keys[1]>>, "+"))

\* commands.py 109-128: classify the upper-cased parts.
NormalizeParts(parts) ==
    IF parts = <<>> THEN Raise("ValueError")
    ELSE NormalizeJoin(OrderedMods(ModsOf(UpperAll(parts))), KeysOf(UpperAll(parts)))

\* commands.py 101-107.  re.split(r"\s*\+\s*", s) followed by strip() of every
\* piece and the drop of the empty ones: the whitespace the pattern eats
\* around a "+" is the whitespace strip() would remove from the pieces.
NormalizeStripped(s) ==
    IF s = "" THEN Raise("ValueError")
    ELSE NormalizeParts(StripParts(Split(s, "+")))

normalize_shortcut(value) ==
    IF value = None THEN Raise("ValueError")
    ELSE NormalizeStripped(Strip(value))

-----------------------------------------------------------------------------
(* Tk key sequences: keys.py *)

\* The grave accent (U+0060) cannot be written inside a TLA+ string; this
\* one-character, non-alphabetic string stands for it.
GraveChar == "^"

TK_KEYNAME_TO_SYMBOL ==
    [n \in {"COMMA", "PERIOD", "DOT", "SLASH", "BACKSLASH", "MINUS", "UNDERSCORE",
            "EQUAL", "PLUS", "SEMICOLON", "COLON", "APOSTROPHE", "QUOTEDBL",
            "BRACKETLEFT", "BRACKETRIGHT", "BRACELEFT", "BRACERIGHT", "GRAVE",
            "ASCIITILDE"} |->
        CASE n = "COMMA" -> ","
          [] n = "PERIOD" -> "."
          [] n = "DOT" -> "."
          [] n = "SLASH" -> "/"
          [] n = "BACKSLASH" -> "\\"
          [] n = "MINUS" -> "-"
          [] n = "UNDERSCORE" -> "_"
          [] n = "EQUAL" -> "="
          [] n = "PLUS" -> "+"
          [] n = "SEMICOLON" -> ";"
          [] n = "COLON" -> ":"
          [] n = "APOSTROPHE" -> "'"
          [] n = "QUOTEDBL" -> "\""
          [] n = "BRACKETLEFT" -> "["
          [] n = "BRACKETRIGHT" -> "]"
          [] n = "BRACELEFT" -> "{"
          [] n = "BRACERIGHT" -> "}"
          [] n = "GRAVE" -> GraveChar
          [] n = "ASCIITILDE" -> "~"]

TK_IGNORED_TOKENS == {"KEYPRESS", "KEYRELEASE"}

\* tk_to_canonical, in the order of its statements; each stage is handed the
\* values computed so far.
\* Faulty variant: a named punctuation key keeps its name.
TkKeyNoSymbols(key) ==
    IF Len(key) = 1 /\ IsAlphaChar(key) THEN Upper(key) ELSE key

\* keys.py 128-133: named punctuation to its symbol; a single letter upper-cased.
TkKey(key) ==
    LET sym == IF key \in DOMAIN TK_KEYNAME_TO_SYMBOL
               THEN TK_KEYNAME_TO_SYMBOL[key] ELSE key
    IN  IF Len(sym) = 1 /\ IsAlphaChar(sym) THEN Upper(sym) ELSE sym

\* keys.py 122-143: the last non-modifier token is the key.
TkJoin(s, ordered_mods, keys) ==
    IF keys = <<>> THEN s
    ELSE IF ordered_mods # <<>>
    THEN Join(ordered_mods \o <<TkKey(keys[Len(keys)])>>, "+")
    ELSE TkKey(keys[Len(keys)])

\* Faulty variant: KeyPress and KeyRelease are kept as tokens.
TkTokensKeepNoise(parts) == UpperAll(parts)

\* keys.py 101-106: upper-case the parts and drop the ignored tokens.
TkTokens(parts) ==
    SelectSeq(UpperAll(parts), LAMBDA u : u \notin TK_IGNORED_TOKENS)

\* keys.py 94-120
TkParts(s, parts) ==
    IF parts = <<>> THEN s
    ELSE TkJoin(s, OrderedMods(ModsOf(TkTokens(parts))), KeysOf(TkTokens(parts)))

\* keys.py 90-94
TkInner(s, inner) ==
    IF inner = "" THEN s
    ELSE TkParts(s, StripParts(Split(inner, "-")))

\* keys.py 83-90
TkStripped(s) ==
    IF s = "" THEN s
    ELSE IF ~(Char(s, 1) = "<" /\ Char(s, Len(s)) = ">") THEN s
    ELSE TkInner(s, Strip(SubSeq(s, 2, Len(s) - 1)))

tk_to_canonical(keyseq) == TkStripped(Strip(IF keyseq = None THEN "" ELSE keyseq))

-----------------------------------------------------------------------------
(* The strings the specifications feed to the normalizers.  The two tables  *)
(* hold normalize_shortcut and tk_to_canonical of each, computed once;      *)
(* Normalize and TkToCanonical are the two functions read through them.     *)

ShortcutInputs ==
    {"ctrl+q", "Ctrl + Q", "Cmd + K", "ctrl+", "cmd+",
     "CTRL+Q", "CMD+K", "CTRL+K", "<CONTROL-K>", "CMD+Q", "cmd+,", "CMD+,",
     "CTRL++", "Ctrl+S", "<Control-s>", "CTRL+S",
     "ctrl+shift+p", "Shift + Control + P", "CTRL+SHIFT+P", "ctrl+p", "P+ctrl",
     "shift+p", "ctrl+shift+", "CTRL+P", "SHIFT+P"}

KeyseqInputs ==
    {"<Control-q>", "<Control-KeyPress-q>", "CMD+K", "<Control-k>", "CTRL+K",
     "<Command-q>", "CTRL+Q", "<Command-comma>", "<Control-plus>"}

NormalizeTable == [s \in ShortcutInputs |-> normalize_shortcut(s)]

TkTable == [s \in KeyseqInputs |-> tk_to_canonical(s)]

Normalize(value) ==
    IF value \in ShortcutInputs THEN NormalizeTable[value] ELSE normalize_shortcut(value)

TkToCanonical(keyseq) ==
    IF keyseq \in KeyseqInputs THEN TkTable[keyseq] ELSE tk_to_canonical(keyseq)

-----------------------------------------------------------------------------
(* Command and CommandContext: commands.py *)

\* Command.enabled / Command.visible: a bool, or a predicate over the context.
\* The predicates of the model read one flag of ctx.state.
Bool(b) == [isbool |-> TRUE, b |-> b, key |-> ""]
Pred(k) == [isbool |-> FALSE, b |-> FALSE, key |-> k]

\* A Command with every field: description, tags and order are what search
\* and its ordering read.
CommandOf(id, label, description, tags, shortcut, enabled, visible, order) ==
    [id |-> id, label |-> label, handler |-> "h:" \o label,
     description |-> description, tags |-> tags, shortcut |-> shortcut,
     enabled |-> enabled, visible |-> visible, order |-> order]

\* A Command whose description, tags and order are the dataclass defaults.
Command(id, label, shortcut, enabled, visible) ==
    CommandOf(id, label, "", <<>>, shortcut, enabled, visible, 1000)

\* CommandRegistry._eval_predicate
eval_predicate(value, ctx) == IF value.isbool THEN value.b ELSE ctx[value.key]

BoolStr(b) == IF b THEN "True" ELSE "False"

-----------------------------------------------------------------------------
(* CommandRegistry: commands.py.  Each operator below is one method, as a   *)
(* function from the registry's fields to the fields it leaves and the      *)
(* error it raises.                                                          *)

has(cmds, command_id) == command_id \in DOMAIN cmds

\* Faulty variant: removes nothing.
remove_shortcut_bindings_keep_all(scs, command_id) == scs

remove_shortcut_bindings_for_command(scs, command_id) ==
    [k \in {k \in DOMAIN scs : scs[k] # command_id} |-> scs[k]]

\* Faulty variant: the index is keyed by the string as given.
bind_shortcut_raw_key(cmds, scs, shortcut, command_id, replace) ==
    LET n == Normalize(shortcut)
    IN  IF command_id \notin DOMAIN cmds
        THEN [err |-> "CommandNotFound", shortcuts |-> scs]
        ELSE IF n.err # None
        THEN [err |-> n.err, shortcuts |-> scs]
        ELSE IF shortcut \in DOMAIN scs /\ ~replace
        THEN [err |-> "ShortcutAlreadyBound", shortcuts |-> scs]
        ELSE [err |-> None, shortcuts |-> (shortcut :> command_id) @@ scs]

\* Faulty variant: overwrites an existing binding whatever replace is.
bind_shortcut_always_replace(cmds, scs, shortcut, command_id, replace) ==
    LET n == Normalize(shortcut)
    IN  IF command_id \notin DOMAIN cmds
        THEN [err |-> "CommandNotFound", shortcuts |-> scs]
        ELSE IF n.err # None
        THEN [err |-> n.err, shortcuts |-> scs]
        ELSE [err |-> None, shortcuts |-> (n.val :> command_id) @@ scs]

bind_shortcut(cmds, scs, shortcut, command_id, replace) ==
    LET n == Normalize(shortcut)
    IN  IF command_id \notin DOMAIN cmds
        THEN [err |-> "CommandNotFound", shortcuts |-> scs]
        ELSE IF n.err # None
        THEN [err |-> n.err, shortcuts |-> scs]
        ELSE IF n.val \in DOMAIN scs /\ ~replace
        THEN [err |-> "ShortcutAlreadyBound", shortcuts |-> scs]
        ELSE [err |-> None, shortcuts |-> (n.val :> command_id) @@ scs]

unbind_shortcut(scs, shortcut) ==
    LET n == Normalize(shortcut)
    IN  IF n.err # None
        THEN [err |-> n.err, shortcuts |-> scs]
        ELSE [err |-> None, shortcuts |-> [k \in DOMAIN scs \ {n.val} |-> scs[k]]]

resolve_shortcut(scs, shortcut) ==
    LET n == Normalize(shortcut)
    IN  IF n.err # None THEN Raise(n.err)
        ELSE Ok(IF n.val \in DOMAIN scs THEN scs[n.val] ELSE None)

\* Faulty variant: no CommandAlreadyRegistered check.
register_no_duplicate_check(cmds, scs, command, replace) ==
    LET scs1  == IF replace /\ command.id \in DOMAIN cmds
                 THEN remove_shortcut_bindings_for_command(scs, command.id)
                 ELSE scs
        cmds1 == (command.id :> command) @@ cmds
        b     == bind_shortcut(cmds1, scs1, command.shortcut, command.id, replace)
    IN  IF command.id = ""
        THEN [err |-> "ValueError", commands |-> cmds, shortcuts |-> scs]
        ELSE IF Truthy(command.shortcut)
        THEN [err |-> b.err, commands |-> cmds1, shortcuts |-> b.shortcuts]
        ELSE [err |-> None, commands |-> cmds1, shortcuts |-> scs1]

\* Faulty variant: the default shortcut is bound without replace.
register_bind_without_replace(cmds, scs, command, replace) ==
    LET scs1  == IF replace /\ command.id \in DOMAIN cmds
                 THEN remove_shortcut_bindings_for_command(scs, command.id)
                 ELSE scs
        cmds1 == (command.id :> command) @@ cmds
        b     == bind_shortcut(cmds1, scs1, command.shortcut, command.id, FALSE)
    IN  IF command.id = ""
        THEN [err |-> "ValueError", commands |-> cmds, shortcuts |-> scs]
        ELSE IF command.id \in DOMAIN cmds /\ ~replace
        THEN [err |-> "CommandAlreadyRegistered", commands |-> cmds, shortcuts |-> scs]
        ELSE IF Truthy(command.shortcut) /\ b.err # None
        THEN [err |-> b.err, commands |-> cmds1, shortcuts |-> scs1]
        ELSE IF Truthy(command.shortcut)
        THEN [err |-> None, commands |-> cmds1, shortcuts |-> b.shortcuts]
        ELSE [err |-> None, commands |-> cmds1, shortcuts |-> scs1]

\* Faulty variant: a default shortcut that cannot be bound takes the command
\* out of the table again.
register_atomic(cmds, scs, command, replace) ==
    LET scs1  == IF replace /\ command.id \in DOMAIN cmds
                 THEN remove_shortcut_bindings_for_command(scs, command.id)
                 ELSE scs
        cmds1 == (command.id :> command) @@ cmds
        b     == bind_shortcut(cmds1, scs1, command.shortcut, command.id, replace)
    IN  IF command.id = ""
        THEN [err |-> "ValueError", commands |-> cmds, shortcuts |-> scs]
        ELSE IF command.id \in DOMAIN cmds /\ ~replace
        THEN [err |-> "CommandAlreadyRegistered", commands |-> cmds, shortcuts |-> scs]
        ELSE IF Truthy(command.shortcut) /\ b.err # None
        THEN [err |-> b.err, commands |-> cmds, shortcuts |-> scs]
        ELSE IF Truthy(command.shortcut)
        THEN [err |-> None, commands |-> cmds1, shortcuts |-> b.shortcuts]
        ELSE [err |-> None, commands |-> cmds1, shortcuts |-> scs1]

\* Faulty variant: a replaced command keeps the bindings of the old one.
register_keeps_old_bindings(cmds, scs, command, replace) ==
    LET cmds1 == (command.id :> command) @@ cmds
        b     == bind_shortcut(cmds1, scs, command.shortcut, command.id, replace)
    IN  IF command.id = ""
        THEN [err |-> "ValueError", commands |-> cmds, shortcuts |-> scs]
        ELSE IF command.id \in DOMAIN cmds /\ ~replace
        THEN [err |-> "CommandAlreadyRegistered", commands |-> cmds, shortcuts |-> scs]
        ELSE IF Truthy(command.shortcut)
        THEN [err |-> b.err, commands |-> cmds1, shortcuts |-> b.shortcuts]
        ELSE [err |-> None, commands |-> cmds1, shortcuts |-> scs]

register(cmds, scs, command, replace) ==
    LET scs1  == IF replace /\ command.id \in DOMAIN cmds
                 THEN remove_shortcut_bindings_for_command(scs, command.id)
                 ELSE scs
        cmds1 == (command.id :> command) @@ cmds
        b     == bind_shortcut(cmds1, scs1, command.shortcut, command.id, replace)
    IN  IF command.id = ""
        THEN [err |-> "ValueError", commands |-> cmds, shortcuts |-> scs]
        ELSE IF command.id \in DOMAIN cmds /\ ~replace
        THEN [err |-> "CommandAlreadyRegistered", commands |-> cmds, shortcuts |-> scs]
        ELSE IF Truthy(command.shortcut)
        THEN [err |-> b.err, commands |-> cmds1, shortcuts |-> b.shortcuts]
        ELSE [err |-> None, commands |-> cmds1, shortcuts |-> scs1]

\* Faulty variant: clears the whole shortcut index.
unregister_drop_all_shortcuts(cmds, scs, command_id) ==
    IF command_id \notin DOMAIN cmds
    THEN [err |-> "CommandNotFound", commands |-> cmds, shortcuts |-> scs]
    ELSE [err |-> None,
          commands |-> [i \in DOMAIN cmds \ {command_id} |-> cmds[i]],
          shortcuts |-> EmptyMap]

unregister(cmds, scs, command_id) ==
    IF command_id \notin DOMAIN cmds
    THEN [err |-> "CommandNotFound", commands |-> cmds, shortcuts |-> scs]
    ELSE [err |-> None,
          commands |-> [i \in DOMAIN cmds \ {command_id} |-> cmds[i]],
          shortcuts |-> remove_shortcut_bindings_for_command(scs, command_id)]

\* Faulty variant: the handler is called before enablement is checked.
execute_handler_before_enabled(cmds, command_id, ctx, require_visible) ==
    LET cmd == cmds[command_id]
    IN  IF command_id \notin DOMAIN cmds
        THEN [err |-> "CommandNotFound", evals |-> <<>>, ran |-> None, ret |-> None]
        ELSE IF require_visible /\ ~eval_predicate(cmd.visible, ctx)
        THEN [err |-> "CommandNotVisible", evals |-> <<"visible">>,
              ran |-> None, ret |-> None]
        ELSE IF ~eval_predicate(cmd.enabled, ctx)
        THEN [err |-> "CommandNotEnabled",
              evals |-> (IF require_visible THEN <<"visible">> ELSE <<>>) \o <<"enabled">>,
              ran |-> cmd.handler, ret |-> None]
        ELSE [err |-> None,
              evals |-> (IF require_visible THEN <<"visible">> ELSE <<>>) \o <<"enabled">>,
              ran |-> cmd.handler, ret |-> "ret:" \o cmd.handler]

\* Faulty variant: enablement is checked before visibility.
execute_enabled_before_visible(cmds, command_id, ctx, require_visible) ==
    LET cmd == cmds[command_id]
    IN  IF command_id \notin DOMAIN cmds
        THEN [err |-> "CommandNotFound", evals |-> <<>>, ran |-> None, ret |-> None]
        ELSE IF ~eval_predicate(cmd.enabled, ctx)
        THEN [err |-> "CommandNotEnabled", evals |-> <<"enabled">>,
              ran |-> None, ret |-> None]
        ELSE IF require_visible /\ ~eval_predicate(cmd.visible, ctx)
        THEN [err |-> "CommandNotVisible", evals |-> <<"enabled", "visible">>,
              ran |-> None, ret |-> None]
        ELSE [err |-> None,
              evals |-> <<"enabled">> \o (IF require_visible THEN <<"visible">> ELSE <<>>),
              ran |-> cmd.handler, ret |-> "ret:" \o cmd.handler]

\* execute: the error raised, the predicates evaluated (in order), the
\* handler invoked (None when none was) and the handler's result.
execute(cmds, command_id, ctx, require_visible) ==
    LET cmd == cmds[command_id]
    IN  IF command_id \notin DOMAIN cmds
        THEN [err |-> "CommandNotFound", evals |-> <<>>, ran |-> None, ret |-> None]
        ELSE IF require_visible /\ ~eval_predicate(cmd.visible, ctx)
        THEN [err |-> "CommandNotVisible", evals |-> <<"visible">>,
              ran |-> None, ret |-> None]
        ELSE IF ~eval_predicate(cmd.enabled, ctx)
        THEN [err |-> "CommandNotEnabled",
              evals |-> (IF require_visible THEN <<"visible">> ELSE <<>>) \o <<"enabled">>,
              ran |-> None, ret |-> None]
        ELSE [err |-> None,
              evals |-> (IF require_visible THEN <<"visible">> ELSE <<>>) \o <<"enabled">>,
              ran |-> cmd.handler, ret |-> "ret:" \o cmd.handler]

\* Faulty variant: an unbound shortcut returns None instead of raising.
execute_shortcut_unbound_is_noop(cmds, scs, shortcut, ctx) ==
    LET r == resolve_shortcut(scs, shortcut)
    IN  IF r.err # None
        THEN [err |-> r.err, evals |-> <<>>, ran |-> None, ret |-> None]
        ELSE IF ~Truthy(r.val)
        THEN [err |-> None, evals |-> <<>>, ran |-> None, ret |-> None]
        ELSE execute(cmds, r.val, ctx, TRUE)

execute_shortcut(cmds, scs, shortcut, ctx) ==
    LET r == resolve_shortcut(scs, shortcut)
    IN  IF r.err # None
        THEN [err |-> r.err, evals |-> <<>>, ran |-> None, ret |-> None]
        ELSE IF ~Truthy(r.val)
        THEN [err |-> "CommandNotFound", evals |-> <<>>, ran |-> None, ret |-> None]
        ELSE execute(cmds, r.val, ctx, TRUE)

\* Faulty variant: the substring tests on the id and the label come before
\* the prefix tests.
score_substring_first(cmd, q) ==
    IF Lower(cmd.id) = q THEN 100
    ELSE IF Lower(cmd.label) = q THEN 95
    ELSE IF Contains(Lower(cmd.id), q) THEN 60
    ELSE IF Contains(Lower(cmd.label), q) THEN 55
    ELSE IF StartsWith(Lower(cmd.id), q) THEN 85
    ELSE IF StartsWith(Lower(cmd.label), q) THEN 80
    ELSE IF Contains(Lower(IF Truthy(cmd.description) THEN cmd.description ELSE ""), q)
    THEN 30
    ELSE IF Contains(Lower(Join(cmd.tags, " ")), q) THEN 25
    ELSE 0

\* CommandRegistry._score
score(cmd, q) ==
    IF Lower(cmd.id) = q THEN 100
    ELSE IF Lower(cmd.label) = q THEN 95
    ELSE IF StartsWith(Lower(cmd.id), q) THEN 85
    ELSE IF StartsWith(Lower(cmd.label), q) THEN 80
    ELSE IF Contains(Lower(cmd.id), q) THEN 60
    ELSE IF Contains(Lower(cmd.label), q) THEN 55
    ELSE IF Contains(Lower(IF Truthy(cmd.description) THEN cmd.description ELSE ""), q)
    THEN 30
    ELSE IF Contains(Lower(Join(cmd.tags, " ")), q) THEN 25
    ELSE 0

\* The commands and the queries of the palette specification.  For the
\* query "save" the commands cover every score, ties on the score, on the
\* order and on the label, a hidden command and one whose visibility is a
\* predicate.
PaletteCommand(id, label, description, tags, visible, order) ==
    CommandOf(id, label, description, tags, None, Bool(TRUE), visible, order)

CmdExactId   == PaletteCommand("save", "Write", "", <<>>, Bool(TRUE), 1000)
CmdLateOrder == PaletteCommand("zz.save", "Zed", "", <<>>, Bool(TRUE), 10)
CmdMaybe     == PaletteCommand("maybe.save", "apple", "", <<>>, Pred("allow"), 1000)

PaletteCommands ==
    {CmdExactId, CmdLateOrder, CmdMaybe,
     PaletteCommand("file.write", "Save", "", <<>>, Bool(TRUE), 1000),
     PaletteCommand("save.all", "Everything", "", <<>>, Bool(TRUE), 1000),
     PaletteCommand("doc.saveas", "Save As", "", <<>>, Bool(TRUE), 1000),
     PaletteCommand("file.save", "Store", "", <<>>, Bool(TRUE), 1000),
     PaletteCommand("a.save", "Store", "", <<>>, Bool(TRUE), 1000),
     PaletteCommand("edit.save", "Banana", "", <<>>, Bool(TRUE), 1000),
     PaletteCommand("auto", "Autosave", "", <<>>, Bool(TRUE), 1000),
     PaletteCommand("export", "Export", "Save a copy", <<>>, Bool(TRUE), 1000),
     PaletteCommand("backup", "Backup", "", <<"io", "save">>, Bool(TRUE), 1000),
     PaletteCommand("hidden.save", "Save Hidden", "", <<>>, Bool(FALSE), 1)}

Queries == {"save", " SAVE ", "Save As", "io sa", "zzz", "", "  ", None}

\* (query or "").strip().lower()
SearchText(query) == Lower(Strip(IF query = None THEN "" ELSE query))

\* _score, label.lower() and the stripped, lowered query of the palette's
\* commands and queries, computed once; Score, LowerLabel and QueryText are
\* the three functions read through these tables.
QueryTable == [query \in Queries |-> SearchText(query)]

ScoreTable ==
    [c \in PaletteCommands |-> [q \in {QueryTable[x] : x \in Queries} |-> score(c, q)]]

LabelTable == [c \in PaletteCommands |-> Lower(c.label)]

QueryText(query) == IF query \in Queries THEN QueryTable[query] ELSE SearchText(query)

Score(cmd, q) ==
    IF cmd \in DOMAIN ScoreTable /\ q \in DOMAIN ScoreTable[cmd]
    THEN ScoreTable[cmd][q] ELSE score(cmd, q)

LowerLabel(cmd) == IF cmd \in DOMAIN LabelTable THEN LabelTable[cmd] ELSE Lower(cmd.label)

\* The sort key (-score, order, label.lower(), id) of a candidate
\* <<score, cmd>>, and the tuple comparison key(a) < key(b).
SortKey(t) == <<0 - t[1], t[2].order, LowerLabel(t[2]), t[2].id>>

KeyLess(a, b) ==
    \/ a[1] < b[1]
    \/ a[1] = b[1] /\ a[2] < b[2]
    \/ a[1] = b[1] /\ a[2] = b[2] /\ StrLess(a[3], b[3])
    \/ a[1] = b[1] /\ a[2] = b[2] /\ a[3] = b[3] /\ StrLess(a[4], b[4])

\* candidates.sort(key=...): the candidates in ascending order of their keys
\* (the ids, and so the keys, of the candidates are distinct).
RECURSIVE SortedCandidates(_)
SortedCandidates(keyed) ==
    IF keyed = {} THEN <<>>
    ELSE LET m == CHOOSE x \in keyed : \A y \in keyed \ {x} : KeyLess(x[1], y[1])
         IN  <<m[2]>> \o SortedCandidates(keyed \ {m})

\* candidates[:max(0, limit)], as the ids of the commands
Truncated(sorted, limit) ==
    SubSeq(sorted, 1, IF limit < 0 THEN 0
                      ELSE IF limit < Len(sorted) THEN limit ELSE Len(sorted))

\* commands.py 302-308: the visible commands with a positive score
SearchCandidates(cmds, q, ctx) ==
    {<<Score(cmds[i], q), cmds[i]>> :
        i \in {j \in DOMAIN cmds :
                  eval_predicate(cmds[j].visible, ctx) /\ Score(cmds[j], q) > 0}}

SearchQuery(cmds, q, ctx, limit) ==
    IF q = "" THEN <<>>
    ELSE Truncated(SortedCandidates({<<SortKey(t), t[2].id>> :
                                        t \in SearchCandidates(cmds, q, ctx)}), limit)

\* CommandRegistry.search: the ids of the commands it returns, in order
search(cmds, query, ctx, limit) == SearchQuery(cmds, QueryText(query), ctx, limit)

\* App.invoke_shortcut: app.py.  The shortcut string goes to
\* CommandRegistry.execute_shortcut as it is; the command id the registry
\* resolved it to is recorded in cid.  The App's telemetry is the global
\* Telemetry (disabled, or writing to the log), not a MemorySink.
invoke_shortcut(cmds, scs, shortcut, ctx) ==
    [err  |-> execute_shortcut(cmds, scs, shortcut, ctx).err,
     cid  |-> resolve_shortcut(scs, shortcut).val,
     ran  |-> execute_shortcut(cmds, scs, shortcut, ctx).ran,
     ret  |-> execute_shortcut(cmds, scs, shortcut, ctx).ret,
     evals |-> execute_shortcut(cmds, scs, shortcut, ctx).evals]

-----------------------------------------------------------------------------
(* KeyMap: keys.py.  A KeyMap's _bindings is a sequence of <<keyseq, id>>   *)
(* pairs with distinct keyseqs, in insertion order.                          *)

\* dict.get(keyseq) on _bindings
BindingOf(bindings, keyseq) ==
    IF \E i \in DOMAIN bindings : bindings[i][1] = keyseq
    THEN bindings[CHOOSE i \in DOMAIN bindings : bindings[i][1] = keyseq][2]
    ELSE None

\* KeyMap.resolve
resolve(bindings, keyseq) == BindingOf(bindings, keyseq)

\* KeyMap.resolve_keyseq: the exact binding, else the binding of the
\* translated form when that differs from the input.
ResolveKeyseqTranslated(bindings, keyseq, canon) ==
    IF canon # keyseq THEN BindingOf(bindings, canon) ELSE None

\* Faulty variant: the binding of the translated form is preferred to the
\* exact one.
ResolveKeyseqTranslationFirst(bindings, keyseq, cid) ==
    IF Truthy(ResolveKeyseqTranslated(bindings, keyseq, TkToCanonical(keyseq)))
    THEN ResolveKeyseqTranslated(bindings, keyseq, TkToCanonical(keyseq))
    ELSE cid

ResolveKeyseqExact(bindings, keyseq, cid) ==
    IF Truthy(cid) THEN cid
    ELSE ResolveKeyseqTranslated(bindings, keyseq, TkToCanonical(keyseq))

resolve_keyseq(bindings, keyseq) ==
    IF ~Truthy(keyseq) THEN None
    ELSE ResolveKeyseqExact(bindings, keyseq, BindingOf(bindings, keyseq))

\* Faulty variant: the stored key sequence is bound as it is, untranslated.
RECURSIVE apply_untranslated(_, _, _, _)
apply_untranslated(bindings, cmds, scs, replace) ==
    IF bindings = <<>> THEN [err |-> None, shortcuts |-> scs]
    ELSE LET b == bind_shortcut(cmds, scs, Head(bindings)[1],
                                Head(bindings)[2], replace)
         IN  IF b.err # None THEN b
             ELSE apply_untranslated(Tail(bindings), cmds, b.shortcuts, replace)

\* Faulty variant: a pair that cannot be bound is passed over and the pairs
\* after it are bound; the first error is raised at the end.
RECURSIVE apply_continues(_, _, _, _)
apply_continues(bindings, cmds, scs, replace) ==
    IF bindings = <<>> THEN [err |-> None, shortcuts |-> scs]
    ELSE LET b == bind_shortcut(cmds, scs, TkToCanonical(Head(bindings)[1]),
                                Head(bindings)[2], replace)
             rest == apply_continues(Tail(bindings), cmds, b.shortcuts, replace)
         IN  [err |-> IF b.err # None THEN b.err ELSE rest.err,
              shortcuts |-> rest.shortcuts]

\* KeyMap.apply onto a CommandRegistry: bind_shortcut for each pair in order;
\* the first error ends the loop and propagates.
RECURSIVE apply(_, _, _, _)
apply(bindings, cmds, scs, replace) ==
    IF bindings = <<>> THEN [err |-> None, shortcuts |-> scs]
    ELSE LET b == bind_shortcut(cmds, scs, TkToCanonical(Head(bindings)[1]),
                                Head(bindings)[2], replace)
         IN  IF b.err # None THEN b
             ELSE apply(Tail(bindings), cmds, b.shortcuts, replace)

\* dict assignment _bindings[keyseq] = command_id: a key already present
\* keeps its place, a new key goes last.
SetBinding(bindings, keyseq, command_id) ==
    IF \E i \in DOMAIN bindings : bindings[i][1] = keyseq
    THEN [i \in DOMAIN bindings |->
            IF bindings[i][1] = keyseq THEN <<keyseq, command_id>> ELSE bindings[i]]
    ELSE Append(bindings, <<keyseq, command_id>>)

\* Faulty variant: a key sequence that is already bound keeps its command.
bind_keeps_existing(bindings, keyseq, command_id, overwrite) ==
    IF ~Truthy(keyseq) THEN [err |-> "ValueError", bindings |-> bindings]
    ELSE IF ~Truthy(command_id) THEN [err |-> "ValueError", bindings |-> bindings]
    ELSE IF \E i \in DOMAIN bindings : bindings[i][1] = keyseq
    THEN [err |-> IF overwrite THEN None ELSE "ValueError", bindings |-> bindings]
    ELSE [err |-> None, bindings |-> Append(bindings, <<keyseq, command_id>>)]

\* KeyMap.bind
bind(bindings, keyseq, command_id, overwrite) ==
    IF ~Truthy(keyseq) THEN [err |-> "ValueError", bindings |-> bindings]
    ELSE IF ~Truthy(command_id) THEN [err |-> "ValueError", bindings |-> bindings]
    ELSE IF ~overwrite /\ (\E i \in DOMAIN bindings : bindings[i][1] = keyseq)
    THEN [err |-> "ValueError", bindings |-> bindings]
    ELSE [err |-> None, bindings |-> SetBinding(bindings, keyseq, command_id)]

\* KeyMap.unbind: _bindings.pop(keyseq, None)
unbind(bindings, keyseq) ==
    SelectSeq(bindings, LAMBDA b : b[1] # keyseq)

\* The objects handed to KeyMap.apply as registry: a CommandRegistry, the
\* tests' FakeRegistry (its bind_shortcut records the call and never raises),
\* the tests' BadRegistry (no bind_shortcut attribute) and an object whose
\* bind_shortcut attribute is not callable.
Registries == {"CommandRegistry", "FakeRegistry", "BadRegistry", "NotCallable"}

\* getattr(registry, "bind_shortcut", None) is there and callable
HasBindShortcut(registry) == registry \in {"CommandRegistry", "FakeRegistry"}

\* The loop of KeyMap.apply over a FakeRegistry whose calls list is rcalls.
RECURSIVE ApplyRecorded(_, _, _)
ApplyRecorded(bindings, rcalls, replace) ==
    IF bindings = <<>> THEN rcalls
    ELSE ApplyRecorded(Tail(bindings),
                       Append(rcalls, <<TkToCanonical(Head(bindings)[1]),
                                        Head(bindings)[2], replace>>),
                       replace)

\* KeyMap.apply(registry, replace=...): the TypeError check, then the loop.
apply_to(registry, bindings, cmds, scs, rcalls, replace) ==
    IF ~HasBindShortcut(registry)
    THEN [err |-> "TypeError", shortcuts |-> scs, calls |-> rcalls]
    ELSE IF registry = "FakeRegistry"
    THEN [err |-> None, shortcuts |-> scs,
          calls |-> ApplyRecorded(bindings, rcalls, replace)]
    ELSE [err |-> apply(bindings, cmds, scs, replace).err,
          shortcuts |-> apply(bindings, cmds, scs, replace).shortcuts,
          calls |-> rcalls]

-----------------------------------------------------------------------------
(* Inputs of the registry specifications *)

\* How many handler invocations a behaviour records: MaxCalls under the
\* registry specifications, MaxRouted under the router specification.
MaxCalls == 2

MaxRouted == 3

CmdA1 == Command("a", "A1", None, Bool(TRUE), Bool(TRUE))
CmdA2 == Command("a", "A2", "ctrl+q", Bool(FALSE), Pred("allow"))
CmdB1 == Command("b", "B1", "Ctrl + Q", Pred("allow"), Bool(FALSE))
CmdB2 == Command("b", "B2", "cmd+", Bool(TRUE), Bool(TRUE))
CmdE  == Command("", "E", None, Bool(TRUE), Bool(TRUE))

RegCommands == {CmdA1, CmdA2, CmdB1, CmdB2, CmdE}
CommandIds  == {"a", "b"}
Shortcuts   == {"ctrl+q", "Cmd + K", "ctrl+"}

\* KeyMaps handed to apply: the shape of build_default_keymap (two Tk forms of
\* one shortcut for one command), and one whose second entry collides.
KeyMapQuit  == << <<"<Control-q>", "a">>, <<"<Control-KeyPress-q>", "a">> >>
KeyMapMixed == << <<"CMD+K", "b">>, <<"<Control-q>", "b">> >>
KeyMaps     == {KeyMapQuit, KeyMapMixed}

\* What a call leaves in last: the method, its command-id and key arguments,
\* its boolean argument (replace / require_visible), the error it raised
\* (None when it returned), the value it returned, and the predicates it
\* evaluated, in order.
Call(op, id, key, flag, err, ret, evals) ==
    [op |-> op, id |-> id, key |-> key, flag |-> flag, err |-> err,
     ret |-> ret, evals |-> evals]

routerVars == <<global_keymap, mode_keymaps, component_keymaps, mode,
                focus_provider, focus_id>>

hostVars == <<keyrouter, telemetry, sink, bind_calls, typed>>

\* No shortcut string composed.
NoneTyped == [parts |-> <<>>, sep |-> "+"]

\* MemorySink.__init__
EmptySink == [metrics |-> <<>>, events |-> <<>>]

Init ==
    /\ commands = EmptyMap
    /\ shortcuts = EmptyMap
    /\ global_keymap = <<>>
    /\ mode_keymaps = EmptyMap
    /\ component_keymaps = EmptyMap
    /\ mode = None
    /\ focus_provider = None
    /\ focus_id = None
    /\ state = [allow |-> FALSE]
    /\ calls = <<>>
    /\ keyrouter = None
    /\ telemetry = None
    /\ sink = EmptySink
    /\ bind_calls = <<>>
    /\ typed = NoneTyped
    /\ last = Call("init", None, None, FALSE, None, None, <<>>)

-----------------------------------------------------------------------------
(* Registry actions: one per public method *)

Register(command, replace) ==
    LET r == register(commands, shortcuts, command, replace)
    IN  /\ commands' = r.commands
        /\ shortcuts' = r.shortcuts
        /\ last' = Call("register", command.id, command.label, replace, r.err, None, <<>>)
        /\ UNCHANGED <<hostVars, routerVars, state, calls>>

Unregister(command_id) ==
    LET r == unregister(commands, shortcuts, command_id)
    IN  /\ commands' = r.commands
        /\ shortcuts' = r.shortcuts
        /\ last' = Call("unregister", command_id, None, FALSE, r.err, None, <<>>)
        /\ UNCHANGED <<hostVars, routerVars, state, calls>>

BindShortcut(shortcut, command_id, replace) ==
    LET r == bind_shortcut(commands, shortcuts, shortcut, command_id, replace)
    IN  /\ shortcuts' = r.shortcuts
        /\ last' = Call("bind_shortcut", command_id, shortcut, replace, r.err, None, <<>>)
        /\ UNCHANGED <<hostVars, commands, routerVars, state, calls>>

UnbindShortcut(shortcut) ==
    LET r == unbind_shortcut(shortcuts, shortcut)
    IN  /\ shortcuts' = r.shortcuts
        /\ last' = Call("unbind_shortcut", None, shortcut, FALSE, r.err, None, <<>>)
        /\ UNCHANGED <<hostVars, commands, routerVars, state, calls>>

ResolveShortcut(shortcut) ==
    LET r == resolve_shortcut(shortcuts, shortcut)
    IN  /\ last' = Call("resolve_shortcut", None, shortcut, FALSE, r.err, r.val, <<>>)
        /\ UNCHANGED <<hostVars, commands, shortcuts, routerVars, state, calls>>

\* get returns the Command; ret records its label.
Get(command_id) ==
    /\ last' = IF command_id \in DOMAIN commands
               THEN Call("get", command_id, None, FALSE, None,
                         commands[command_id].label, <<>>)
               ELSE Call("get", command_id, None, FALSE, "CommandNotFound", None, <<>>)
    /\ UNCHANGED <<hostVars, commands, shortcuts, routerVars, state, calls>>

IsVisible(command_id) ==
    /\ last' = IF command_id \in DOMAIN commands
               THEN Call("is_visible", command_id, None, FALSE, None,
                         BoolStr(eval_predicate(commands[command_id].visible, state)),
                         <<"visible">>)
               ELSE Call("is_visible", command_id, None, FALSE, "CommandNotFound",
                         None, <<>>)
    /\ UNCHANGED <<hostVars, commands, shortcuts, routerVars, state, calls>>

IsEnabled(command_id) ==
    /\ last' = IF command_id \in DOMAIN commands
               THEN Call("is_enabled", command_id, None, FALSE, None,
                         BoolStr(eval_predicate(commands[command_id].enabled, state)),
                         <<"enabled">>)
               ELSE Call("is_enabled", command_id, None, FALSE, "CommandNotFound",
                         None, <<>>)
    /\ UNCHANGED <<hostVars, commands, shortcuts, routerVars, state, calls>>

\* The handlers of the model append their name to calls and return a value.
Execute(command_id, require_visible) ==
    LET r == execute(commands, command_id, state, require_visible)
    IN  /\ Len(calls) < MaxCalls
        /\ calls' = IF r.ran # None THEN Append(calls, r.ran) ELSE calls
        /\ last' = Call("execute", command_id, None, require_visible, r.err, r.ret, r.evals)
        /\ UNCHANGED <<hostVars, commands, shortcuts, routerVars, state>>

ExecuteShortcut(shortcut) ==
    LET r == execute_shortcut(commands, shortcuts, shortcut, state)
    IN  /\ Len(calls) < MaxCalls
        /\ calls' = IF r.ran # None THEN Append(calls, r.ran) ELSE calls
        /\ last' = Call("execute_shortcut", None, shortcut, TRUE, r.err, r.ret, r.evals)
        /\ UNCHANGED <<hostVars, commands, shortcuts, routerVars, state>>

InvokeShortcut(shortcut) ==
    LET r == invoke_shortcut(commands, shortcuts, shortcut, state)
    IN  /\ Len(calls) < MaxCalls
        /\ calls' = IF r.ran # None THEN Append(calls, r.ran) ELSE calls
        /\ last' = Call("invoke_shortcut", r.cid, shortcut, TRUE, r.err, r.ret, r.evals)
        /\ UNCHANGED <<hostVars, commands, shortcuts, routerVars, state>>

\* search returns Commands; ret records their ids, id the limit argument.
Search(query, limit) ==
    /\ last' = Call("search", limit, query, FALSE, None,
                    search(commands, query, state, limit), <<>>)
    /\ UNCHANGED <<hostVars, commands, shortcuts, routerVars, state, calls>>

\* keymap.apply(registry, replace=...) for a KeyMap holding `bindings`.
KeyMapApply(bindings, replace) ==
    LET r == apply(bindings, commands, shortcuts, replace)
    IN  /\ shortcuts' = r.shortcuts
        /\ last' = Call("apply", None, Head(bindings)[1], replace, r.err, None, <<>>)
        /\ UNCHANGED <<hostVars, commands, routerVars, state, calls>>

\* The KeyMap the host holds (App.keymap, which is also the router's
\* global_keymap) under bind, unbind, resolve, resolve_keyseq and apply.
KeyMapBind(keyseq, command_id, overwrite) ==
    LET r == bind(global_keymap, keyseq, command_id, overwrite)
    IN  /\ global_keymap' = r.bindings
        /\ last' = Call("keymap.bind", command_id, keyseq, overwrite, r.err, None, <<>>)
        /\ UNCHANGED <<hostVars, commands, shortcuts, state, calls, mode_keymaps,
                       component_keymaps, mode, focus_provider, focus_id>>

KeyMapUnbind(keyseq) ==
    /\ global_keymap' = unbind(global_keymap, keyseq)
    /\ last' = Call("keymap.unbind", None, keyseq, FALSE, None, None, <<>>)
    /\ UNCHANGED <<hostVars, commands, shortcuts, state, calls, mode_keymaps,
                   component_keymaps, mode, focus_provider, focus_id>>

KeyMapResolve(keyseq) ==
    /\ last' = Call("keymap.resolve", None, keyseq, FALSE, None,
                    resolve(global_keymap, keyseq), <<>>)
    /\ UNCHANGED <<hostVars, commands, shortcuts, state, calls, routerVars>>

KeyMapResolveKeyseq(keyseq) ==
    /\ last' = Call("keymap.resolve_keyseq", None, keyseq, FALSE, None,
                    resolve_keyseq(global_keymap, keyseq), <<>>)
    /\ UNCHANGED <<hostVars, commands, shortcuts, state, calls, routerVars>>

\* keymap.apply(registry, replace=...) of the host's KeyMap; a FakeRegistry
\* is a fresh one (calls == []).
ApplyKeyMap(registry, replace) ==
    LET r == apply_to(registry, global_keymap, commands, shortcuts, <<>>, replace)
    IN  /\ shortcuts' = r.shortcuts
        /\ bind_calls' = IF registry = "FakeRegistry" THEN r.calls ELSE bind_calls
        /\ last' = Call("keymap.apply", registry, None, replace, r.err, None, <<>>)
        /\ UNCHANGED <<commands, state, calls, routerVars, keyrouter, telemetry, sink,
                       typed>>

\* The host changes ctx.state between calls.
SetState(k, v) ==
    /\ state' = [state EXCEPT ![k] = v]
    /\ last' = Call("set_state", None, k, v, None, None, <<>>)
    /\ UNCHANGED <<hostVars, commands, shortcuts, routerVars, calls>>

Next ==
    \/ \E c \in RegCommands, r \in BOOLEAN : Register(c, r)
    \/ \E i \in CommandIds : Unregister(i)
    \/ \E s \in Shortcuts, i \in CommandIds, r \in BOOLEAN : BindShortcut(s, i, r)
    \/ \E s \in Shortcuts : UnbindShortcut(s)
    \/ \E s \in Shortcuts : ResolveShortcut(s)
    \/ \E i \in CommandIds : Get(i)
    \/ \E km \in KeyMaps, r \in BOOLEAN : KeyMapApply(km, r)

\* The registry under registration, binding and KeyMap.apply.
Spec == Init /\ [][Next]_vars

ExecNext ==
    \/ \E c \in RegCommands \ {CmdE} : Register(c, FALSE)
    \/ \E i \in CommandIds : Unregister(i)
    \/ \E i \in CommandIds : BindShortcut("Cmd + K", i, FALSE)
    \/ \E i \in CommandIds : Get(i)
    \/ \E i \in CommandIds : IsVisible(i)
    \/ \E i \in CommandIds : IsEnabled(i)
    \/ \E i \in CommandIds, rv \in BOOLEAN : Execute(i, rv)
    \/ \E s \in {"CTRL+Q", "Cmd + K", "ctrl+"} : ExecuteShortcut(s)
    \/ \E v \in BOOLEAN : SetState("allow", v)

\* The registry under evaluation and execution.
SpecExec == Init /\ [][ExecNext]_vars

\* The registry holds two commands without default shortcuts; the host
\* holds one of these KeyMaps and applies it: two shortcuts for one command,
\* a Tk form and its canonical form for two commands (in both orders), and
\* the two KeyMaps above.
KeyMapCmdCtrl == << <<"<Command-q>", "a">>, <<"<Control-q>", "a">> >>
KeyMapClashAB == << <<"<Control-q>", "a">>, <<"CTRL+Q", "b">> >>
KeyMapClashBA == << <<"CTRL+Q", "b">>, <<"<Control-q>", "a">> >>
\* KeyMaps whose second of three pairs cannot be bound: a key sequence that
\* translates to an invalid shortcut, a command id that is not registered, and
\* a shortcut the first pair has taken.
KeyMapBadMiddle     == << <<"<Command-q>", "a">>, <<"<Control-plus>", "a">>,
                          <<"CMD+K", "b">> >>
KeyMapUnknownMiddle == << <<"<Command-q>", "a">>, <<"CMD+K", "zz">>,
                          <<"<Control-q>", "b">> >>
KeyMapClashMiddle   == << <<"<Control-q>", "a">>, <<"CTRL+Q", "b">>,
                          <<"CMD+K", "b">> >>
ApplyKeyMaps  == {<<>>, KeyMapCmdCtrl, KeyMapClashAB, KeyMapClashBA, KeyMapQuit,
                  KeyMapMixed, KeyMapBadMiddle, KeyMapUnknownMiddle,
                  KeyMapClashMiddle}

ApplyInit ==
    /\ commands = ("a" :> CmdA1) @@ ("b" :> Command("b", "B0", None, Bool(TRUE), Bool(TRUE)))
    /\ shortcuts = EmptyMap
    /\ global_keymap \in ApplyKeyMaps
    /\ mode_keymaps = EmptyMap
    /\ component_keymaps = EmptyMap
    /\ mode = None
    /\ focus_provider = None
    /\ focus_id = None
    /\ state = [allow |-> FALSE]
    /\ calls = <<>>
    /\ keyrouter = None
    /\ telemetry = None
    /\ sink = EmptySink
    /\ bind_calls = <<>>
    /\ typed = NoneTyped
    /\ last = Call("init", None, None, FALSE, None, None, <<>>)

ApplyNext ==
    \/ \E g \in Registries, r \in BOOLEAN : ApplyKeyMap(g, r)
    \/ \E i \in CommandIds : BindShortcut("CTRL+Q", i, FALSE)
    \/ \E s \in {"CTRL+Q", "CMD+Q", "CMD+K"} : UnbindShortcut(s)
    \/ \E s \in {"CTRL+Q", "CMD+Q", "CMD+K"} : ResolveShortcut(s)

\* KeyMap.apply onto registries.
SpecApply == ApplyInit /\ [][ApplyNext]_vars

\* A KeyMap on its own: a Tk form, its KeyPress variant and their canonical
\* form are bound, rebound, unbound and looked up.
KeyMapKeyseqs == {"<Control-q>", "<Control-KeyPress-q>", "CTRL+Q"}

KeyMapNext ==
    \/ \E k \in KeyMapKeyseqs \cup {""}, i \in CommandIds \cup {""}, o \in BOOLEAN :
           KeyMapBind(k, i, o)
    \/ \E k \in KeyMapKeyseqs : KeyMapUnbind(k)
    \/ \E k \in KeyMapKeyseqs \cup {""} : KeyMapResolve(k)
    \/ \E k \in KeyMapKeyseqs \cup {""} : KeyMapResolveKeyseq(k)

SpecKeyMap == Init /\ [][KeyMapNext]_vars

-----------------------------------------------------------------------------
(* normalize_shortcut on composed strings: a caller joins up to MaxParts    *)
(* parts (modifier names, key names, blanks) with "+" or " + ", normalizes  *)
(* the string, normalizes the result again, and hands the string to the     *)
(* registry.                                                                 *)

MaxParts == 3

ShortcutTokens == {"Ctrl", "control", "Option", "shift", "Meta", "p", " "}

PartSeqs == UNION {[1..n -> ShortcutTokens] : n \in 0..MaxParts}

\* Strings of more parts: the remaining synonyms, repeated modifiers, all
\* four modifiers out of order, blanks around the string and its parts.
LongTyped ==
    {[parts |-> <<"Shift", "Ctrl", "p">>, sep |-> "+"],
     [parts |-> <<"Ctrl", "Shift", "p">>, sep |-> "+"],
     [parts |-> <<"cmd", "SHIFT", "alt", "ctrl", "k">>, sep |-> "+"],
     [parts |-> <<"Command", "k", "ALT", "CONTROL", "Shift">>, sep |-> " + "],
     [parts |-> <<"meta", "Cmd", "COMMAND", "alt", "option", "f4">>, sep |-> "+"],
     [parts |-> <<"  ctrl", "shift ", "ctrl", "Shift", " p  ">>, sep |-> " +"],
     [parts |-> <<"ctrl", "alt", "shift", "cmd">>, sep |-> "+"],
     [parts |-> <<"ctrl", "p", "alt", "q", "k">>, sep |-> "+"]}

TypedInputs ==
    {[parts |-> ps, sep |-> sp] : ps \in PartSeqs, sp \in {"+", " + "}} \cup LongTyped

\* The string the caller composed: the parts joined by the separator, inside
\* "<" and ">" when the separator is the "-" of a Tk key sequence.
TypedText ==
    IF typed.sep = "-" THEN "<" \o Join(typed.parts, "-") \o ">"
    ELSE Join(typed.parts, typed.sep)

NormalizeInit ==
    /\ commands = ("a" :> CmdA1)
    /\ shortcuts = EmptyMap
    /\ global_keymap = <<>>
    /\ mode_keymaps = EmptyMap
    /\ component_keymaps = EmptyMap
    /\ mode = None
    /\ focus_provider = None
    /\ focus_id = None
    /\ state = [allow |-> FALSE]
    /\ calls = <<>>
    /\ keyrouter = None
    /\ telemetry = None
    /\ sink = EmptySink
    /\ bind_calls = <<>>
    /\ typed \in TypedInputs
    /\ last = Call("init", None, None, FALSE, None, None, <<>>)

\* normalize_shortcut(text)
NormalizeShortcut ==
    LET r == Normalize(TypedText)
    IN  /\ last' = Call("normalize_shortcut", None, TypedText, FALSE, r.err, r.val, <<>>)
        /\ UNCHANGED <<hostVars, commands, shortcuts, state, calls, routerVars>>

\* normalize_shortcut(out) for the string out the last normalize_shortcut
\* call returned.
NormalizeAgain ==
    /\ last.op = "normalize_shortcut" /\ last.err = None
    /\ LET r == Normalize(last.ret)
       IN  last' = Call("normalize_shortcut.again", None, last.ret, FALSE, r.err,
                        r.val, <<>>)
    /\ UNCHANGED <<hostVars, commands, shortcuts, state, calls, routerVars>>

NormalizeNext ==
    \/ NormalizeShortcut
    \/ NormalizeAgain
    \/ \E r \in BOOLEAN : BindShortcut(TypedText, "a", r)
    \/ UnbindShortcut(TypedText)
    \/ ResolveShortcut(TypedText)

SpecNormalize == NormalizeInit /\ [][NormalizeNext]_vars

-----------------------------------------------------------------------------
(* tk_to_canonical on composed key sequences: a caller joins up to MaxParts *)
(* tokens (modifier names, the KeyPress marker, key names, blanks) with "-" *)
(* inside "<" and ">", or with "+" for a string that is not a Tk sequence,  *)
(* translates the string, normalizes the translation, and binds the string  *)
(* in the host's KeyMap, which it applies to the registry.                   *)

TkTokenNames == {"Control", "Command", "KeyPress", "q", "plus", " "}

\* The key names of _TK_KEYNAME_TO_SYMBOL, as Tk writes them.
TkKeyNames ==
    {"comma", "period", "dot", "slash", "backslash", "minus", "underscore",
     "equal", "plus", "semicolon", "colon", "apostrophe", "quotedbl",
     "bracketleft", "bracketright", "braceleft", "braceright", "grave",
     "asciitilde"}

TkPartSeqs == UNION {[1..n -> TkTokenNames] : n \in 0..MaxParts}

\* Further strings: every named punctuation key under a modifier, the
\* KeyRelease marker, the examples of the tk_to_canonical docstring, and the
\* canonical-style strings with a comma.
TkLongTyped ==
    {[parts |-> <<m, n>>, sep |-> "-"] : m \in {"Control", "Command"}, n \in TkKeyNames}
    \cup
    {[parts |-> <<"Command", "KeyRelease", "q">>, sep |-> "-"],
     [parts |-> <<"KeyRelease", "Command", "q", "KeyPress">>, sep |-> "-"],
     [parts |-> <<"Control", "KeyRelease">>, sep |-> "-"],
     [parts |-> <<"Control", "Shift", "p">>, sep |-> "-"],
     [parts |-> <<"Alt", "F4">>, sep |-> "-"],
     [parts |-> <<"cmd", ",">>, sep |-> "+"],
     [parts |-> <<"cmd", "comma">>, sep |-> "+"],
     [parts |-> <<"CTRL", "K">>, sep |-> "+"]}

TkTypedInputs ==
    {[parts |-> ps, sep |-> sp] : ps \in TkPartSeqs, sp \in {"-", "+"}} \cup TkLongTyped

TranslateInit ==
    /\ commands = ("a" :> CmdA1)
    /\ shortcuts = EmptyMap
    /\ global_keymap = <<>>
    /\ mode_keymaps = EmptyMap
    /\ component_keymaps = EmptyMap
    /\ mode = None
    /\ focus_provider = None
    /\ focus_id = None
    /\ state = [allow |-> FALSE]
    /\ calls = <<>>
    /\ keyrouter = None
    /\ telemetry = None
    /\ sink = EmptySink
    /\ bind_calls = <<>>
    /\ typed \in TkTypedInputs
    /\ last = Call("init", None, None, FALSE, None, None, <<>>)

\* tk_to_canonical(text)
TranslateKeyseq ==
    /\ last' = Call("tk_to_canonical", None, TypedText, FALSE, None,
                    TkToCanonical(TypedText), <<>>)
    /\ UNCHANGED <<hostVars, commands, shortcuts, state, calls, routerVars>>

\* normalize_shortcut(out) for the string out the last tk_to_canonical call
\* returned.
NormalizeTranslated ==
    /\ last.op = "tk_to_canonical"
    /\ LET r == Normalize(last.ret)
       IN  last' = Call("normalize_shortcut.translated", None, last.ret, FALSE,
                        r.err, r.val, <<>>)
    /\ UNCHANGED <<hostVars, commands, shortcuts, state, calls, routerVars>>

TranslateNext ==
    \/ TranslateKeyseq
    \/ NormalizeTranslated
    \/ NormalizeShortcut
    \/ KeyMapBind(TypedText, "a", TRUE)
    \/ \E r \in BOOLEAN : ApplyKeyMap("CommandRegistry", r)

SpecTranslate == TranslateInit /\ [][TranslateNext]_vars

-----------------------------------------------------------------------------
(* App.invoke_shortcut: the registry holds a save command bound to CTRL+S   *)
(* (the state register leaves), and the host invokes a shortcut it composed *)
(* in canonical style ("Ctrl+S") or in Tk style ("<Control-s>").            *)

CmdSave == Command("a", "Save", "CTRL+S", Bool(TRUE), Bool(TRUE))

InvokeTyped ==
    {[parts |-> <<m, k>>, sep |-> sp] :
        m \in {"Control", "Ctrl", "ctrl", "Shift"}, k \in {"s", "S", "q"},
        sp \in {"-", "+", " + "}}

InvokeInit ==
    /\ commands = ("a" :> CmdSave)
    /\ shortcuts = ("CTRL+S" :> "a")
    /\ global_keymap = <<>>
    /\ mode_keymaps = EmptyMap
    /\ component_keymaps = EmptyMap
    /\ mode = None
    /\ focus_provider = None
    /\ focus_id = None
    /\ state = [allow |-> FALSE]
    /\ calls = <<>>
    /\ keyrouter = None
    /\ telemetry = None
    /\ sink = EmptySink
    /\ bind_calls = <<>>
    /\ typed \in InvokeTyped
    /\ last = Call("init", None, None, FALSE, None, None, <<>>)

InvokeNext ==
    \/ InvokeShortcut(TypedText)
    \/ ExecuteShortcut(TypedText)
    \/ ResolveShortcut(TypedText)
    \/ TranslateKeyseq
    \/ \E r \in BOOLEAN : BindShortcut(TypedText, "a", r)
    \/ UnbindShortcut(TypedText)

SpecInvoke == InvokeInit /\ [][InvokeNext]_vars

-----------------------------------------------------------------------------
(* search: the registry holds the palette's commands; three of them are    *)
(* unregistered and registered again, the context changes, and the host    *)
(* searches.                                                                *)

Limits == {-1, 0, 1, 3, 25}

SearchInit ==
    /\ commands = [i \in {c.id : c \in PaletteCommands} |->
                      CHOOSE c \in PaletteCommands : c.id = i]
    /\ shortcuts = EmptyMap
    /\ global_keymap = <<>>
    /\ mode_keymaps = EmptyMap
    /\ component_keymaps = EmptyMap
    /\ mode = None
    /\ focus_provider = None
    /\ focus_id = None
    /\ state = [allow |-> FALSE]
    /\ calls = <<>>
    /\ keyrouter = None
    /\ telemetry = None
    /\ sink = EmptySink
    /\ bind_calls = <<>>
    /\ typed = NoneTyped
    /\ last = Call("init", None, None, FALSE, None, None, <<>>)

SearchNext ==
    \/ \E q \in Queries, n \in Limits : Search(q, n)
    \/ \E c \in {CmdExactId, CmdLateOrder, CmdMaybe} : Register(c, FALSE)
    \/ \E c \in {CmdExactId, CmdLateOrder, CmdMaybe} : Unregister(c.id)
    \/ \E v \in BOOLEAN : SetState("allow", v)

SpecSearch == SearchInit /\ [][SearchNext]_vars

-----------------------------------------------------------------------------
(* One shortcut under several spellings: the registry is given strings that *)
(* differ in case, order, spacing and synonym, as arguments and as default  *)
(* shortcuts.                                                                *)

Aliases ==
    {"ctrl+shift+p", "Shift + Control + P", "CTRL+SHIFT+P", "ctrl+p", "P+ctrl",
     "shift+p", "ctrl+shift+"}

CmdP1 == Command("a", "P1", "Shift + Control + P", Bool(TRUE), Bool(TRUE))
CmdP2 == Command("b", "P2", "ctrl+p", Bool(TRUE), Bool(TRUE))
CmdB0 == Command("b", "B0", None, Bool(TRUE), Bool(TRUE))

AliasNext ==
    \/ \E c \in {CmdA1, CmdP1, CmdP2, CmdB0}, r \in BOOLEAN : Register(c, r)
    \/ \E i \in CommandIds : Unregister(i)
    \/ \E s \in Aliases, i \in CommandIds, r \in BOOLEAN : BindShortcut(s, i, r)
    \/ \E s \in Aliases : UnbindShortcut(s)
    \/ \E s \in Aliases : ResolveShortcut(s)

SpecAlias == Init /\ [][AliasNext]_vars

-----------------------------------------------------------------------------
(* KeyRouter: keyrouter.py *)

\* focus_provider() if focus_provider else None
Focus == IF focus_provider # None THEN focus_id ELSE None

\* Faulty variant: an absent layer ends the search instead of handing over.
LayerMatchAbsentEndsSearch(keymaps, name, keyseq) ==
    IF Truthy(name) /\ name \in DOMAIN keymaps
    THEN resolve_keyseq(keymaps[name], keyseq)
    ELSE "unhandled"

\* The match of one layer: the keymap registered under `name`, if any, asked
\* for keyseq.  A KeyMap object is always truthy (it defines neither __bool__
\* nor __len__), so "if km" only tests that .get() found one.
LayerMatch(keymaps, name, keyseq) ==
    IF Truthy(name) /\ name \in DOMAIN keymaps
    THEN resolve_keyseq(keymaps[name], keyseq)
    ELSE None

\* resolve_command_id, and the layer that produced the match: each layer is
\* asked only when the layers before it gave no match.
ResolveGlobal(keyseq) ==
    [cid |-> resolve_keyseq(global_keymap, keyseq), layer |-> "global"]

ResolveMode(keyseq, cid) ==
    IF Truthy(cid) THEN [cid |-> cid, layer |-> "mode"] ELSE ResolveGlobal(keyseq)

ResolveComponent(keyseq, cid) ==
    IF Truthy(cid) THEN [cid |-> cid, layer |-> "component"]
    ELSE ResolveMode(keyseq, LayerMatch(mode_keymaps, mode, keyseq))

\* Faulty variant: the mode layer is asked before the component layer.
ResolveLayersModeFirst(keyseq) ==
    LET m == LayerMatch(mode_keymaps, mode, keyseq)
        c == LayerMatch(component_keymaps, Focus, keyseq)
    IN  IF Truthy(m) THEN [cid |-> m, layer |-> "mode"]
        ELSE IF Truthy(c) THEN [cid |-> c, layer |-> "component"]
        ELSE ResolveGlobal(keyseq)

ResolveLayers(keyseq) ==
    ResolveComponent(keyseq, LayerMatch(component_keymaps, Focus, keyseq))

resolve_command_id(keyseq) == ResolveLayers(keyseq).cid

\* Faulty variant: an error of registry.execute is caught and reported as an
\* unhandled key.
RouteResolvedSwallowsErrors(command_id, x) ==
    IF ~Truthy(command_id) \/ x.err # None
    THEN [err |-> None, ret |-> "False", cid |-> command_id, ran |-> None,
          evals |-> x.evals]
    ELSE [err |-> None, ret |-> "True", cid |-> command_id, ran |-> x.ran,
          evals |-> x.evals]

\* Faulty variant: no "if not command_id" test, so an unresolved key is
\* handed to registry.execute.
RouteResolvedNoUnboundCheck(command_id, x) ==
    [err |-> x.err, ret |-> IF x.err = None THEN "True" ELSE None,
     cid |-> command_id, ran |-> x.ran, evals |-> x.evals]

\* route_keyseq: False when nothing resolves; otherwise registry.execute with
\* require_visible=True, whose error propagates, and True.
RouteResolved(command_id, x) ==
    IF ~Truthy(command_id)
    THEN [err |-> None, ret |-> "False", cid |-> command_id, ran |-> None,
          evals |-> <<>>]
    ELSE [err |-> x.err, ret |-> IF x.err = None THEN "True" ELSE None,
          cid |-> command_id, ran |-> x.ran, evals |-> x.evals]

RouteExecute(command_id) ==
    RouteResolved(command_id, execute(commands, command_id, state, TRUE))

route_keyseq(keyseq) == RouteExecute(resolve_command_id(keyseq))

registryVars == <<commands, shortcuts, state>>

SetMode(m) ==
    /\ keyrouter # None
    /\ mode' = m
    /\ last' = Call("set_mode", m, None, FALSE, None, None, <<>>)
    /\ UNCHANGED <<hostVars, registryVars, calls, global_keymap, mode_keymaps,
                   component_keymaps, focus_provider, focus_id>>

\* set_focus_provider(None), or set_focus_provider(lambda: focus_id) for a
\* variable focus_id of the caller that holds f.
SetFocusProvider(installed, f) ==
    /\ keyrouter # None
    /\ installed \/ f = None
    /\ focus_provider' = IF installed THEN "provider" ELSE None
    /\ focus_id' = IF installed THEN f ELSE None
    /\ last' = Call("set_focus_provider", f, None, installed, None, None, <<>>)
    /\ UNCHANGED <<hostVars, registryVars, calls, global_keymap, mode_keymaps,
                   component_keymaps, mode>>

\* The caller assigns the variable its installed provider reads.
FocusChange(f) ==
    /\ keyrouter # None
    /\ focus_provider # None
    /\ focus_id' = f
    /\ last' = Call("focus", f, None, FALSE, None, None, <<>>)
    /\ UNCHANGED <<hostVars, registryVars, calls, global_keymap, mode_keymaps,
                   component_keymaps, mode, focus_provider>>

RegisterModeKeymap(m, keymap) ==
    /\ keyrouter # None
    /\ mode_keymaps' = (m :> keymap) @@ mode_keymaps
    /\ last' = Call("register_mode_keymap", m, None, FALSE, None, None, <<>>)
    /\ UNCHANGED <<hostVars, registryVars, calls, global_keymap, component_keymaps, mode,
                   focus_provider, focus_id>>

UnregisterModeKeymap(m) ==
    /\ keyrouter # None
    /\ mode_keymaps' = [k \in DOMAIN mode_keymaps \ {m} |-> mode_keymaps[k]]
    /\ last' = Call("unregister_mode_keymap", m, None, FALSE, None, None, <<>>)
    /\ UNCHANGED <<hostVars, registryVars, calls, global_keymap, component_keymaps, mode,
                   focus_provider, focus_id>>

RegisterComponentKeymap(c, keymap) ==
    /\ keyrouter # None
    /\ component_keymaps' = (c :> keymap) @@ component_keymaps
    /\ last' = Call("register_component_keymap", c, None, FALSE, None, None, <<>>)
    /\ UNCHANGED <<hostVars, registryVars, calls, global_keymap, mode_keymaps, mode,
                   focus_provider, focus_id>>

UnregisterComponentKeymap(c) ==
    /\ keyrouter # None
    /\ component_keymaps' = [k \in DOMAIN component_keymaps \ {c} |-> component_keymaps[k]]
    /\ last' = Call("unregister_component_keymap", c, None, FALSE, None, None, <<>>)
    /\ UNCHANGED <<hostVars, registryVars, calls, global_keymap, mode_keymaps, mode,
                   focus_provider, focus_id>>

ResolveCommandId(keyseq) ==
    /\ keyrouter # None
    /\ last' = Call("resolve_command_id", None, keyseq, FALSE, None,
                    resolve_command_id(keyseq), <<>>)
    /\ UNCHANGED <<hostVars, registryVars, calls, routerVars>>

RouteKeyseq(keyseq) ==
    LET r == route_keyseq(keyseq)
    IN  /\ keyrouter # None
        /\ Len(calls) < MaxRouted
        /\ calls' = IF r.ran # None THEN Append(calls, r.ran) ELSE calls
        /\ last' = Call("route_keyseq", r.cid, keyseq, TRUE, r.err, r.ret, r.evals)
        /\ UNCHANGED <<hostVars, registryVars, routerVars>>

-----------------------------------------------------------------------------
(* The router specification: a registry holding one command per layer, the  *)
(* router constructed over it with one of three global keymaps.             *)

CmdG == Command("global", "G", None, Bool(TRUE), Bool(TRUE))
CmdM == Command("mode", "M", None, Bool(TRUE), Bool(TRUE))
CmdF == Command("focus", "F", None, Bool(TRUE), Bool(TRUE))

\* A KeyMap after bind(keyseq, command_id) on a fresh KeyMap.
KeyMapOf(keyseq, command_id) == << <<keyseq, command_id>> >>

GlobalKeyMaps    == {<<>>, KeyMapOf("<Control-k>", "global"), KeyMapOf("CTRL+K", "global")}
ModeKeyMaps      == {<<>>, KeyMapOf("<Control-k>", "mode")}
ComponentKeyMaps == {<<>>, KeyMapOf("<Control-k>", "focus")}
Modes            == {None, "edit", "view"}
FocusIds         == {None, "editor", "tree"}
RoutedKeyseqs    == {"<Control-k>", "<Control-q>"}

RouterInit ==
    /\ commands = ("global" :> CmdG) @@ ("mode" :> CmdM) @@ ("focus" :> CmdF)
    /\ shortcuts = EmptyMap
    /\ global_keymap \in GlobalKeyMaps
    /\ mode_keymaps = EmptyMap
    /\ component_keymaps = EmptyMap
    /\ mode = None
    /\ focus_provider = None
    /\ focus_id = None
    /\ state = [allow |-> FALSE]
    /\ calls = <<>>
    /\ keyrouter = "KeyRouter"
    /\ telemetry = None
    /\ sink = EmptySink
    /\ bind_calls = <<>>
    /\ typed = NoneTyped
    /\ last = Call("init", None, None, FALSE, None, None, <<>>)

RouterNext ==
    \/ \E m \in Modes : SetMode(m)
    \/ \E b \in BOOLEAN, f \in FocusIds : SetFocusProvider(b, f)
    \/ \E f \in FocusIds : FocusChange(f)
    \/ \E km \in ModeKeyMaps : RegisterModeKeymap("edit", km)
    \/ UnregisterModeKeymap("edit")
    \/ \E km \in ComponentKeyMaps : RegisterComponentKeymap("editor", km)
    \/ UnregisterComponentKeymap("editor")
    \/ \E k \in RoutedKeyseqs : ResolveCommandId(k)
    \/ \E k \in RoutedKeyseqs : RouteKeyseq(k)

SpecRouter == RouterInit /\ [][RouterNext]_vars

-----------------------------------------------------------------------------
(* The router over a registry whose commands come and go: every layer binds *)
(* "<Control-k>", and the commands the component and mode layers name are   *)
(* replaced by hidden or disabled ones, or unregistered.                     *)

CmdFHidden   == Command("focus", "FH", None, Bool(TRUE), Bool(FALSE))
CmdFDisabled == Command("focus", "FD", None, Pred("allow"), Bool(TRUE))
CmdMDisabled == Command("mode", "MD", None, Bool(FALSE), Bool(TRUE))

RouterErrInit ==
    /\ commands = ("global" :> CmdG) @@ ("mode" :> CmdM) @@ ("focus" :> CmdF)
    /\ shortcuts = EmptyMap
    /\ global_keymap = KeyMapOf("<Control-k>", "global")
    /\ mode_keymaps = ("edit" :> KeyMapOf("<Control-k>", "mode"))
    /\ component_keymaps = ("editor" :> KeyMapOf("<Control-k>", "focus"))
    /\ mode = None
    /\ focus_provider = None
    /\ focus_id = None
    /\ state = [allow |-> FALSE]
    /\ calls = <<>>
    /\ keyrouter = "KeyRouter"
    /\ telemetry = None
    /\ sink = EmptySink
    /\ bind_calls = <<>>
    /\ typed = NoneTyped
    /\ last = Call("init", None, None, FALSE, None, None, <<>>)

RouterErrNext ==
    \/ \E c \in {CmdF, CmdFHidden, CmdFDisabled, CmdM, CmdMDisabled} : Register(c, TRUE)
    \/ \E i \in {"focus", "mode"} : Unregister(i)
    \/ \E v \in BOOLEAN : SetState("allow", v)
    \/ \E m \in {None, "edit"} : SetMode(m)
    \/ \E b \in BOOLEAN, f \in {None, "editor"} : SetFocusProvider(b, f)
    \/ \E k \in RoutedKeyseqs : RouteKeyseq(k)

SpecRouterErr == RouterErrInit /\ [][RouterErrNext]_vars

-----------------------------------------------------------------------------
(* The host builds its router: KeyRouter(registry=..., global_keymap=...),  *)
(* with telemetry=... when it holds a Telemetry object (app.py, the tests).  *)

\* The __init__ the dataclass generates takes the fields registry,
\* global_keymap, mode_keymaps, _mode, component_keymaps and focus_provider;
\* any other keyword argument is a TypeError.  t is the telemetry argument,
\* None when the keyword is not passed.
KeyRouterNew(keymap, t) ==
    [err |-> IF t # None THEN "TypeError" ELSE None,
     global_keymap |-> keymap, mode_keymaps |-> EmptyMap, mode |-> None,
     component_keymaps |-> EmptyMap, focus_provider |-> None]

\* keyrouter = KeyRouter(registry=commands, global_keymap=keymap[, telemetry=t]);
\* when the constructor raises, the assignment does not happen.
NewKeyRouter(keymap, t) ==
    LET r == KeyRouterNew(keymap, t)
    IN  /\ last' = Call("KeyRouter", None, None, t # None, r.err, None, <<>>)
        /\ IF r.err = None
           THEN /\ keyrouter' = "KeyRouter"
                /\ telemetry' = t
                /\ global_keymap' = r.global_keymap
                /\ mode_keymaps' = r.mode_keymaps
                /\ mode' = r.mode
                /\ component_keymaps' = r.component_keymaps
                /\ focus_provider' = r.focus_provider
                /\ focus_id' = None
           ELSE UNCHANGED <<keyrouter, telemetry, routerVars>>
        /\ UNCHANGED <<registryVars, calls, sink, bind_calls, typed>>

HostInit ==
    /\ commands = ("global" :> CmdG) @@ ("mode" :> CmdM) @@ ("focus" :> CmdF)
    /\ shortcuts = EmptyMap
    /\ global_keymap = <<>>
    /\ mode_keymaps = EmptyMap
    /\ component_keymaps = EmptyMap
    /\ mode = None
    /\ focus_provider = None
    /\ focus_id = None
    /\ state = [allow |-> FALSE]
    /\ calls = <<>>
    /\ keyrouter = None
    /\ telemetry = None
    /\ sink = EmptySink
    /\ bind_calls = <<>>
    /\ typed = NoneTyped
    /\ last = Call("init", None, None, FALSE, None, None, <<>>)

HostNext ==
    \/ \E km \in GlobalKeyMaps, t \in {None, "telemetry"} : NewKeyRouter(km, t)
    \/ \E m \in {None, "edit"} : SetMode(m)
    \/ \E b \in BOOLEAN, f \in {None, "editor"} : SetFocusProvider(b, f)
    \/ \E km \in ModeKeyMaps : RegisterModeKeymap("edit", km)
    \/ \E km \in ComponentKeyMaps : RegisterComponentKeymap("editor", km)
    \/ \E k \in RoutedKeyseqs : RouteKeyseq(k)

SpecHost == HostInit /\ [][HostNext]_vars

-----------------------------------------------------------------------------
(* Properties of the registry under Spec *)

\* The canonical form of the shortcut argument of the call recorded in c.
KeyOf(c) == Normalize(c.key).val

\* C1: after any sequence of register, unregister, bind_shortcut,
\* unbind_shortcut and KeyMap.apply calls, failed ones included, every entry
\* of the shortcut index maps to an id present in the command table.
C1_ShortcutsReferToCommands ==
    \A k \in DOMAIN shortcuts : shortcuts[k] \in DOMAIN commands

\* A command that owned a shortcut has been unregistered (the index lost its
\* entries) while another command and its shortcut remain.
C1_Witness ==
    /\ last.op = "unregister" /\ last.err = None
    /\ DOMAIN commands # {}
    /\ DOMAIN shortcuts # {}

\* C2: unregister(id) of a registered id raises nothing, removes the command
\* and exactly the shortcut entries that map to id; every other command and
\* every shortcut of another command is as before.
C2_UnregisterRemovesExactly ==
    [][(last'.op = "unregister" /\ last'.id \in DOMAIN commands) =>
        /\ last'.err = None
        /\ ~has(commands', last'.id)
        /\ \A s \in Shortcuts : resolve_shortcut(shortcuts', s).val # last'.id
        /\ DOMAIN commands' = DOMAIN commands \ {last'.id}
        /\ \A i \in DOMAIN commands' : commands'[i] = commands[i]
        /\ DOMAIN shortcuts' = {k \in DOMAIN shortcuts : shortcuts[k] # last'.id}
        /\ \A k \in DOMAIN shortcuts' : shortcuts'[k] = shortcuts[k]
      ]_vars

\* "a" was unregistered while "b" stays registered and keeps a shortcut.
C2_Witness ==
    /\ last.op = "unregister" /\ last.id = "a" /\ last.err = None
    /\ "b" \in DOMAIN commands
    /\ \E k \in DOMAIN shortcuts : shortcuts[k] = "b"

\* C7: register of an id that is registered, without replace, raises
\* CommandAlreadyRegistered and leaves the command table and the shortcut
\* index as they were; register of an id that is not registered (never
\* registered, or unregistered since) puts the command in the table and
\* never raises the duplicate error.
C7_DuplicateRegisterRejected ==
    [][(last'.op = "register" /\ last'.id # "") =>
        IF last'.id \in DOMAIN commands /\ ~last'.flag
        THEN /\ last'.err = "CommandAlreadyRegistered"
             /\ commands' = commands
             /\ shortcuts' = shortcuts
        ELSE /\ last'.err # "CommandAlreadyRegistered"
             /\ last'.id \in DOMAIN commands'
             /\ commands'[last'.id].label = last'.key
             /\ (commands'[last'.id].shortcut = None => last'.err = None)
      ]_vars

\* A second command with the id "a" was rejected and get("a") is still the first.
C7_Witness ==
    /\ last.op = "register" /\ last.id = "a" /\ last.key = "A2"
    /\ last.err = "CommandAlreadyRegistered"
    /\ commands["a"] = CmdA1

\* C8: bind_shortcut of a canonical shortcut that is bound to another command
\* raises ShortcutAlreadyBound and changes nothing when replace is false; with
\* replace=true it succeeds, resolve_shortcut returns the new id, and no
\* other entry changes.
C8_BindCollision ==
    [][(/\ last'.op = "bind_shortcut"
        /\ last'.id \in DOMAIN commands
        /\ Normalize(last'.key).err = None
        /\ KeyOf(last') \in DOMAIN shortcuts
        /\ shortcuts[KeyOf(last')] # last'.id) =>
        IF last'.flag
        THEN /\ last'.err = None
             /\ resolve_shortcut(shortcuts', last'.key) = Ok(last'.id)
             /\ DOMAIN shortcuts' = DOMAIN shortcuts
             /\ \A k \in DOMAIN shortcuts \ {KeyOf(last')} : shortcuts'[k] = shortcuts[k]
        ELSE /\ last'.err = "ShortcutAlreadyBound"
             /\ shortcuts' = shortcuts
      ]_vars

\* A bind without replace was refused and the shortcut still resolves to
\* the other command.
C8_Witness ==
    /\ last.op = "bind_shortcut" /\ ~last.flag
    /\ last.err = "ShortcutAlreadyBound"
    /\ resolve_shortcut(shortcuts, last.key).val \notin {None, last.id}

\* C9: bind_shortcut without replace raises ShortcutAlreadyBound only if the
\* canonical shortcut maps to a different command.  (A refused bind changes
\* nothing, so the index after the call is the index before it.)
C9_RebindSameCommandSucceeds ==
    (last.op = "bind_shortcut" /\ last.err = "ShortcutAlreadyBound")
        => shortcuts[KeyOf(last)] # last.id

\* C9, for KeyMap.apply: a KeyMap holding "<Control-q>" and
\* "<Control-KeyPress-q>" for the command "a", applied without replace to a
\* registry where "a" is registered and CTRL+Q is not bound to another
\* command, raises nothing.
C9_ApplyKeyPressVariants ==
    (/\ last.op = "apply" /\ last.key = "<Control-q>" /\ ~last.flag
     /\ "a" \in DOMAIN commands
     /\ ("CTRL+Q" \in DOMAIN shortcuts => shortcuts["CTRL+Q"] = "a"))
        => last.err = None

-----------------------------------------------------------------------------
(* Properties of execution under SpecExec *)

\* The value of a command's enabled / visible field in the current context:
\* the field itself when it is a bool, else what its predicate returns.
IsEnabledNow(cmd) == IF cmd.enabled.isbool THEN cmd.enabled.b ELSE state[cmd.enabled.key]
IsVisibleNow(cmd) == IF cmd.visible.isbool THEN cmd.visible.b ELSE state[cmd.visible.key]

\* C5: execute of a command whose enabled field is false, or a predicate that
\* returns false, raises (whatever require_visible is) and calls no handler;
\* when the command is enabled (and visible, or visibility is not required)
\* execute calls the handler exactly once and returns its result.
C5_DisabledNeverRuns ==
    [][(last'.op = "execute" /\ last'.id \in DOMAIN commands) =>
        LET cmd == commands[last'.id]
        IN  /\ ~IsEnabledNow(cmd) =>
                /\ last'.err \in {"CommandNotEnabled", "CommandNotVisible"}
                /\ calls' = calls
            /\ (IsEnabledNow(cmd) /\ (IsVisibleNow(cmd) \/ ~last'.flag)) =>
                /\ last'.err = None
                /\ calls' = Append(calls, cmd.handler)
                /\ last'.ret = "ret:" \o cmd.handler
      ]_vars

\* The enabled predicate of B1 returned false at first (Init) and returns true
\* now: execute("b") has run B1's handler once, and nothing else ran.
C5_Witness ==
    /\ last.op = "execute" /\ last.id = "b" /\ last.err = None
    /\ "b" \in DOMAIN commands /\ commands["b"] = CmdB1
    /\ state.allow
    /\ calls = <<CmdB1.handler>>

\* C6: execute checks visibility before enablement.  For a command neither
\* visible nor enabled, require_visible=true raises CommandNotVisible without
\* evaluating enablement; with require_visible=false visibility is not
\* evaluated, an invisible enabled command runs its handler and an invisible
\* disabled one raises CommandNotEnabled.  No failing execute runs a handler.
C6_VisibilityBeforeEnablement ==
    [][(last'.op = "execute" /\ last'.id \in DOMAIN commands) =>
        LET cmd == commands[last'.id]
            vis == IsVisibleNow(cmd)
            en  == IsEnabledNow(cmd)
        IN  /\ (last'.flag /\ ~vis) =>
                /\ last'.err = "CommandNotVisible"
                /\ last'.evals = <<"visible">>
                /\ calls' = calls
            /\ (~last'.flag /\ ~vis /\ en) =>
                /\ last'.err = None
                /\ last'.evals = <<"enabled">>
                /\ calls' = Append(calls, cmd.handler)
            /\ (~last'.flag /\ ~en) =>
                /\ last'.err = "CommandNotEnabled"
                /\ last'.evals = <<"enabled">>
                /\ calls' = calls
            /\ (last'.flag /\ vis /\ ~en) =>
                /\ last'.err = "CommandNotEnabled"
                /\ last'.evals = <<"visible", "enabled">>
                /\ calls' = calls
      ]_vars

\* A2 is neither visible (its predicate returns false) nor enabled, and
\* execute("a") with require_visible=true raised CommandNotVisible.
C6_Witness ==
    /\ last.op = "execute" /\ last.id = "a" /\ last.flag
    /\ "a" \in DOMAIN commands /\ commands["a"] = CmdA2
    /\ ~IsVisibleNow(CmdA2) /\ ~IsEnabledNow(CmdA2)
    /\ last.err = "CommandNotVisible"
    /\ calls = <<>>

\* C10: unregister, bind_shortcut, get, is_visible, is_enabled and execute of
\* an id that is not registered, and execute_shortcut of a (well-formed)
\* shortcut that has no binding, raise CommandNotFound; no handler and no
\* predicate is called, and the command table and the shortcut index are
\* unchanged.
C10_UnknownIdNotFound ==
    [][(\/ /\ last'.op \in {"unregister", "bind_shortcut", "get", "is_visible",
                            "is_enabled", "execute"}
           /\ last'.id \notin DOMAIN commands
        \/ /\ last'.op = "execute_shortcut"
           /\ Normalize(last'.key).err = None
           /\ KeyOf(last') \notin DOMAIN shortcuts) =>
        /\ last'.err = "CommandNotFound"
        /\ last'.evals = <<>>
        /\ calls' = calls
        /\ commands' = commands
        /\ shortcuts' = shortcuts
      ]_vars

\* execute_shortcut of an unbound shortcut raised CommandNotFound in a
\* registry that holds commands and other bindings.
C10_Witness ==
    /\ last.op = "execute_shortcut" /\ last.err = "CommandNotFound"
    /\ DOMAIN commands # {}
    /\ DOMAIN shortcuts # {}
    /\ KeyOf(last) \notin DOMAIN shortcuts

\* C10: an id that is not registered made execute raise CommandNotFound.
C10_WitnessExecute ==
    /\ last.op = "execute" /\ last.err = "CommandNotFound"
    /\ last.id \notin DOMAIN commands
    /\ DOMAIN commands # {}

-----------------------------------------------------------------------------
(* Properties of the router under SpecRouter *)

\* What each layer binds keyseq to in the current router state, None when
\* the layer is absent or has no binding for it.
ComponentBinding(keyseq) ==
    IF /\ focus_provider # None
       /\ focus_id \notin {None, ""}
       /\ focus_id \in DOMAIN component_keymaps
    THEN resolve_keyseq(component_keymaps[focus_id], keyseq)
    ELSE None

ModeBinding(keyseq) ==
    IF mode \notin {None, ""} /\ mode \in DOMAIN mode_keymaps
    THEN resolve_keyseq(mode_keymaps[mode], keyseq)
    ELSE None

GlobalBinding(keyseq) == resolve_keyseq(global_keymap, keyseq)

\* The command id a resolve_command_id or route_keyseq call came to.
Resolved(c) == IF c.op = "route_keyseq" THEN c.id ELSE c.ret

\* C3: the match of the highest-priority layer that has one is the result of
\* resolve_command_id, and route_keyseq executes that command and no other:
\* the component layer's when it has a match, else the mode layer's.
C3_HighestLayerWins ==
    [][(last'.op \in {"route_keyseq", "resolve_command_id"}) =>
        LET k == last'.key
            c == ComponentBinding(k)
            m == ModeBinding(k)
            winner == IF c # None THEN c ELSE m
        IN  winner # None =>
              /\ Resolved(last') = winner
              /\ IF last'.op = "route_keyseq"
                 THEN /\ last'.ret = "True"
                      /\ calls' = Append(calls, commands[winner].handler)
                 ELSE calls' = calls
      ]_vars

\* The three layers bind "<Control-k>" to three commands, a mode is active,
\* the focused component has a keymap, and route_keyseq ran the component
\* layer's handler only.
C3_Witness ==
    /\ last.op = "route_keyseq" /\ last.key = "<Control-k>" /\ last.ret = "True"
    /\ ComponentBinding("<Control-k>") = "focus"
    /\ ModeBinding("<Control-k>") = "mode"
    /\ GlobalBinding("<Control-k>") = "global"
    /\ calls = <<CmdF.handler>>

\* C4: a layer that yields no match, because it is absent (no focus provider,
\* the provider returns none, no keymap for the focus id or the mode, no
\* mode) or because its keymap has no binding for the key, hands over to the
\* next layer; mode and focus are those at the time of the call.
C4_FallThrough ==
    (last.op \in {"route_keyseq", "resolve_command_id"}) =>
        LET k == last.key
            noComponent ==
                \/ focus_provider = None
                \/ focus_id = None
                \/ focus_id \notin DOMAIN component_keymaps
                \/ resolve_keyseq(component_keymaps[focus_id], k) = None
            noMode ==
                \/ mode = None
                \/ mode \notin DOMAIN mode_keymaps
                \/ resolve_keyseq(mode_keymaps[mode], k) = None
        IN  /\ (noComponent /\ ~noMode) =>
                Resolved(last) = resolve_keyseq(mode_keymaps[mode], k)
            /\ (noComponent /\ noMode) =>
                Resolved(last) = resolve_keyseq(global_keymap, k)

\* The component and mode keymaps still bind the key, the focus id was
\* removed and then the mode cleared: the same key went to the component's
\* command, then to the mode's, then to the global one.
C4_Witness ==
    /\ last.op = "route_keyseq" /\ last.key = "<Control-k>" /\ last.id = "global"
    /\ focus_provider # None /\ focus_id = None
    /\ "editor" \in DOMAIN component_keymaps
    /\ resolve_keyseq(component_keymaps["editor"], "<Control-k>") = "focus"
    /\ mode = None
    /\ "edit" \in DOMAIN mode_keymaps
    /\ resolve_keyseq(mode_keymaps["edit"], "<Control-k>") = "mode"
    /\ calls = <<CmdF.handler, CmdM.handler, CmdG.handler>>

\* No active layer binds keyseq.
Unbound(keyseq) ==
    /\ ComponentBinding(keyseq) = None
    /\ ModeBinding(keyseq) = None
    /\ GlobalBinding(keyseq) = None

\* C11: route_keyseq on a key sequence that no active layer binds returns
\* False, raises nothing, runs no handler and evaluates no predicate, and
\* leaves the router and the registry as they were; it returns True only when
\* the resolved command was checked for visibility and enablement (the
\* require_visible=True execution) and its handler was run.
C11_UnhandledReturnsFalse ==
    [][(last'.op = "route_keyseq") =>
        /\ Unbound(last'.key) =>
              /\ last'.ret = "False"
              /\ last'.err = None
              /\ last'.evals = <<>>
              /\ calls' = calls
              /\ UNCHANGED <<registryVars, routerVars>>
        /\ last'.ret = "True" =>
              /\ ~Unbound(last'.key)
              /\ last'.id \in DOMAIN commands
              /\ last'.evals = <<"visible", "enabled">>
              /\ calls' = Append(calls, commands[last'.id].handler)
      ]_vars

\* A key nobody binds was routed while a mode and a focused component were
\* active with keymaps of their own and handlers had already run.
C11_Witness ==
    /\ last.op = "route_keyseq" /\ last.key = "<Control-q>" /\ last.ret = "False"
    /\ ModeBinding("<Control-k>") = "mode"
    /\ ComponentBinding("<Control-k>") = "focus"
    /\ calls # <<>>

\* The binding of the highest-priority layer that has one for keyseq.
Winner(keyseq) ==
    IF ComponentBinding(keyseq) # None THEN ComponentBinding(keyseq)
    ELSE IF ModeBinding(keyseq) # None THEN ModeBinding(keyseq)
    ELSE GlobalBinding(keyseq)

\* The error registry.execute(id, ctx, require_visible=True) is to raise now,
\* None when the command can run.
ExecutionError(id) ==
    IF id \notin DOMAIN commands THEN "CommandNotFound"
    ELSE IF ~IsVisibleNow(commands[id]) THEN "CommandNotVisible"
    ELSE IF ~IsEnabledNow(commands[id]) THEN "CommandNotEnabled"
    ELSE None

\* C12: when the winning layer's command id cannot be executed (it is not
\* registered, not visible or not enabled), route_keyseq raises the
\* registry's error for that id instead of returning False, runs no handler,
\* and does not turn to the binding a lower layer has for the same key.
C12_ExecutionErrorPropagates ==
    [][(/\ last'.op = "route_keyseq"
        /\ Winner(last'.key) # None
        /\ ExecutionError(Winner(last'.key)) # None) =>
        /\ last'.err = ExecutionError(Winner(last'.key))
        /\ last'.ret = None
        /\ last'.id = Winner(last'.key)
        /\ calls' = calls
      ]_vars

\* The focused component's command is hidden, the mode and global layers
\* bind the same key to commands that can run, and route_keyseq raised
\* CommandNotVisible after earlier routes had run handlers.
C12_Witness ==
    /\ last.op = "route_keyseq" /\ last.key = "<Control-k>"
    /\ last.err = "CommandNotVisible" /\ last.id = "focus"
    /\ ModeBinding("<Control-k>") = "mode" /\ ExecutionError("mode") = None
    /\ GlobalBinding("<Control-k>") = "global" /\ ExecutionError("global") = None
    /\ calls # <<>>

-----------------------------------------------------------------------------
(* Properties of the router's telemetry under SpecHost *)

\* The layer whose binding route_keyseq dispatches for keyseq.
WinningLayer(keyseq) ==
    IF ComponentBinding(keyseq) # None THEN "component"
    ELSE IF ModeBinding(keyseq) # None THEN "mode"
    ELSE "global"

\* C13: a router can be given a telemetry object, and a router that has one
\* emits, on every route_keyseq call, exactly one keys.pressed counter of
\* value 1 carrying the keyseq, then exactly one event: command.dispatched
\* with command_id, keyseq and the matching layer when a command was
\* dispatched, key.unhandled with the keyseq when no layer binds the key.
C13_TelemetryPerRoute ==
    [][/\ (last'.op = "KeyRouter" /\ last'.flag) =>
              /\ last'.err = None
              /\ keyrouter' # None
              /\ telemetry' # None
       /\ (last'.op = "route_keyseq" /\ telemetry # None) =>
              /\ sink'.metrics =
                     Append(sink.metrics,
                            [name |-> "keys.pressed", value |-> 1,
                             attrs |-> [keyseq |-> last'.key]])
              /\ last'.ret = "True" =>
                     sink'.events =
                         Append(sink.events,
                                [name |-> "command.dispatched",
                                 attrs |-> [command_id |-> last'.id,
                                            keyseq |-> last'.key,
                                            layer |-> WinningLayer(last'.key)]])
              /\ last'.ret = "False" =>
                     sink'.events =
                         Append(sink.events,
                                [name |-> "key.unhandled",
                                 attrs |-> [keyseq |-> last'.key]])
      ]_vars

\* C14: telemetry does not alter routing: constructing the router with a
\* telemetry object raises nothing and yields the router that construction
\* without one yields, so that the route_keyseq calls that follow return,
\* raise and run what they do without telemetry.
C14_TelemetryDoesNotAlterRouting ==
    [][(last'.op = "KeyRouter") =>
        /\ last'.err = None
        /\ keyrouter' = "KeyRouter"
        /\ global_keymap' \in GlobalKeyMaps
        /\ mode_keymaps' = EmptyMap
        /\ component_keymaps' = EmptyMap
        /\ mode' = None
        /\ focus_provider' = None
        /\ UNCHANGED <<registryVars, calls>>
      ]_vars

-----------------------------------------------------------------------------
(* Properties of KeyMap.apply under SpecApply *)

\* The key of the shortcut index a stored pair is bound under.
PairKey(b) == Normalize(TkToCanonical(b[1])).val

\* The id of the last pair of km bound under the same key as its i-th pair.
LastBoundId(km, i) ==
    LET same == {j \in DOMAIN km : PairKey(km[j]) = PairKey(km[i])}
    IN  km[CHOOSE j \in same : \A h \in same : h <= j][2]

\* The bind_shortcut calls apply is to make for km: one per pair, in
\* insertion order, with the translated key sequence and the replace flag.
ExpectedBindCalls(km, replace) ==
    [i \in DOMAIN km |-> <<TkToCanonical(km[i][1]), km[i][2], replace>>]

\* C15 as stated: apply calls bind_shortcut once per stored pair, in
\* insertion order, with the translated key sequence and the replace flag;
\* after a successful apply onto a CommandRegistry, resolve_shortcut of each
\* pair's canonical form returns that pair's id; a registry without a
\* callable bind_shortcut is rejected with TypeError before any binding.
C15_EachPairResolvesToItsId ==
    [][(last'.op = "keymap.apply") =>
        /\ last'.id = "FakeRegistry" =>
              /\ last'.err = None
              /\ bind_calls' = ExpectedBindCalls(global_keymap, last'.flag)
        /\ (last'.id = "CommandRegistry" /\ last'.err = None) =>
              \A i \in DOMAIN global_keymap :
                  resolve_shortcut(shortcuts', TkToCanonical(global_keymap[i][1])).val
                      = global_keymap[i][2]
        /\ ~HasBindShortcut(last'.id) =>
              /\ last'.err = "TypeError"
              /\ shortcuts' = shortcuts
              /\ bind_calls' = bind_calls
      ]_vars

\* C15, amended: as above, except that after a successful apply onto a
\* CommandRegistry resolve_shortcut of each pair's canonical form returns the
\* id of the last stored pair with that canonical form (a later pair with the
\* same canonical form, applied with replace, takes the shortcut over), and
\* shortcuts no pair translates to keep their binding.
C15_LastPairPerShortcutResolves ==
    [][(last'.op = "keymap.apply") =>
        /\ last'.id = "FakeRegistry" =>
              /\ last'.err = None
              /\ bind_calls' = ExpectedBindCalls(global_keymap, last'.flag)
              /\ shortcuts' = shortcuts
        /\ (last'.id = "CommandRegistry" /\ last'.err = None) =>
              /\ \A i \in DOMAIN global_keymap :
                    resolve_shortcut(shortcuts', TkToCanonical(global_keymap[i][1])).val
                        = LastBoundId(global_keymap, i)
              /\ \A k \in DOMAIN shortcuts' :
                    (\A i \in DOMAIN global_keymap : PairKey(global_keymap[i]) # k) =>
                        (k \in DOMAIN shortcuts /\ shortcuts'[k] = shortcuts[k])
        /\ (last'.id = "CommandRegistry" /\ last'.err # None) =>
              last'.err \in {"ShortcutAlreadyBound", "CommandNotFound", "ValueError"}
        /\ ~HasBindShortcut(last'.id) =>
              /\ last'.err = "TypeError"
              /\ shortcuts' = shortcuts
              /\ bind_calls' = bind_calls
      ]_vars

\* "<Command-q>" and "<Control-q>" were bound to one command and applied
\* with the default replace=False: CMD+Q and CTRL+Q both resolve to it.
C15_Witness ==
    /\ last.op = "keymap.apply" /\ last.id = "CommandRegistry"
    /\ last.err = None /\ ~last.flag
    /\ global_keymap = KeyMapCmdCtrl
    /\ resolve_shortcut(shortcuts, "CMD+Q").val = "a"
    /\ resolve_shortcut(shortcuts, "CTRL+Q").val = "a"

\* A KeyMap holding a Tk form and its canonical form for two commands was
\* applied with replace=True: the shortcut went to the later pair's command.
C15_WitnessLastWins ==
    /\ last.op = "keymap.apply" /\ last.id = "CommandRegistry"
    /\ last.err = None /\ last.flag
    /\ global_keymap = KeyMapClashAB
    /\ resolve_shortcut(shortcuts, "CTRL+Q").val = "b"

-----------------------------------------------------------------------------
(* Properties of KeyMap under SpecKeyMap *)

\* The command the KeyMap km holds for exactly the string keyseq, if any.
Bound(km, keyseq) == \E i \in DOMAIN km : km[i][1] = keyseq
Held(km, keyseq) ==
    IF Bound(km, keyseq)
    THEN (CHOOSE b \in {km[i] : i \in DOMAIN km} : b[1] = keyseq)[2]
    ELSE None

\* C16: bind with an empty keyseq or an empty command id raises and leaves
\* the map as it was; bind with overwrite=False onto a key sequence that is
\* bound (the same string) raises and leaves the map as it was; every other
\* bind succeeds, the key sequence then maps to the given id (the last bind
\* wins) and all other key sequences keep their command, other sequences of
\* the same command included.
C16_BindOverwrite ==
    [][(last'.op = "keymap.bind") =>
        LET k == last'.key
            i == last'.id
            rejected == \/ k = "" \/ i = ""
                        \/ (~last'.flag /\ Bound(global_keymap, k))
        IN  /\ rejected =>
                  /\ last'.err = "ValueError"
                  /\ global_keymap' = global_keymap
            /\ ~rejected =>
                  /\ last'.err = None
                  /\ Held(global_keymap', k) = i
                  /\ \A k2 \in KeyMapKeyseqs \ {k} :
                        Held(global_keymap', k2) = Held(global_keymap, k2)
                  /\ Len(global_keymap') =
                        IF Bound(global_keymap, k) THEN Len(global_keymap)
                        ELSE Len(global_keymap) + 1
      ]_vars

\* "<Control-q>" was bound again, with the default overwrite, after "CTRL+Q"
\* had been added, and both now map to the same command.
C16_Witness ==
    /\ last.op = "keymap.bind" /\ last.key = "<Control-q>" /\ last.flag
    /\ last.err = None /\ last.id = "b"
    /\ global_keymap = << <<"<Control-q>", "b">>, <<"CTRL+Q", "b">> >>

\* C17: resolve_keyseq returns the command bound to exactly the input when
\* there is one, whatever the translated form is bound to; else, when the
\* translated form differs from the input, the command bound to the
\* translated form; else none.  resolve returns the command bound to exactly
\* the input and never translates.
C17_ExactBeforeTranslated ==
    /\ (last.op = "keymap.resolve_keyseq") =>
          last.ret =
              IF Bound(global_keymap, last.key) THEN Held(global_keymap, last.key)
              ELSE IF tk_to_canonical(last.key) # last.key
              THEN Held(global_keymap, tk_to_canonical(last.key))
              ELSE None
    /\ (last.op = "keymap.resolve") =>
          last.ret = Held(global_keymap, last.key)

\* The Tk form and its canonical form are bound to different commands and
\* resolve_keyseq of the Tk form returned the Tk form's own command.
C17_Witness ==
    /\ last.op = "keymap.resolve_keyseq" /\ last.key = "<Control-q>"
    /\ last.ret = "a"
    /\ Held(global_keymap, "<Control-q>") = "a"
    /\ Held(global_keymap, "CTRL+Q") = "b"

\* C17: only the canonical form is bound; resolve_keyseq of the KeyPress
\* variant found it through translation.
C17_WitnessTranslated ==
    /\ last.op = "keymap.resolve_keyseq" /\ last.key = "<Control-KeyPress-q>"
    /\ last.ret = "b"
    /\ global_keymap = << <<"CTRL+Q", "b">> >>

-----------------------------------------------------------------------------
(* Properties of normalize_shortcut under SpecNormalize *)

\* What a composed part stands for: the canonical modifier it names, or the
\* canonical key it names, or neither (a blank).
ModifierNamed(part) ==
    CASE part \in {"Ctrl", "control", "ctrl", "  ctrl", "CONTROL", "Control", "CTRL"} -> "CTRL"
      [] part \in {"Option", "option", "alt", "ALT", "Alt"} -> "ALT"
      [] part \in {"shift", "Shift", "SHIFT", "shift "} -> "SHIFT"
      [] part \in {"Meta", "meta", "cmd", "Cmd", "Command", "COMMAND"} -> "CMD"
      [] OTHER -> None

KeyNamed(part) ==
    CASE part \in {"p", " p  "} -> "P"
      [] part \in {"F4", "f4"} -> "F4"
      [] part = "k" -> "K"
      [] part = "q" -> "Q"
      [] OTHER -> None

\* The keys a sequence of parts names, in order.
KeysTyped(parts) ==
    SelectSeq([i \in DOMAIN parts |-> KeyNamed(parts[i])], LAMBDA k : k # None)

\* The canonical shortcut of a sequence of parts that names one key: the
\* modifiers it names, each once, in the order CTRL, ALT, SHIFT, CMD, then
\* the key, joined by "+".
Canonical(parts) ==
    Join(SelectSeq(<<"CTRL", "ALT", "SHIFT", "CMD">>,
                   LAMBDA m : \E i \in DOMAIN parts : ModifierNamed(parts[i]) = m)
         \o KeysTyped(parts), "+")

\* C18: whenever normalize_shortcut accepts a string, its output is the
\* modifiers the string names, deduplicated, in the order CTRL, ALT, SHIFT,
\* CMD, followed by the one key, whatever the order, case, synonym and
\* repetition of the modifiers in the input.
C18_ModifierOrder ==
    (last.op = "normalize_shortcut" /\ last.err = None) =>
        last.ret = Canonical(typed.parts)

\* "Command + k + ALT + CONTROL + Shift" came out as CTRL+ALT+SHIFT+CMD+K.
C18_Witness ==
    /\ last.op = "normalize_shortcut"
    /\ typed.parts = <<"Command", "k", "ALT", "CONTROL", "Shift">>
    /\ last.ret = "CTRL+ALT+SHIFT+CMD+K"

\* C19: normalize_shortcut applied to its own output succeeds and returns
\* that output unchanged.
C19_Idempotent ==
    (last.op = "normalize_shortcut.again") =>
        /\ last.err = None
        /\ last.ret = last.key

\* The output of a string with repeated, unordered modifiers was normalized
\* again.
C19_Witness ==
    /\ last.op = "normalize_shortcut.again"
    /\ typed.parts = <<"meta", "Cmd", "COMMAND", "alt", "option", "f4">>
    /\ last.key = "ALT+CMD+F4"
    /\ last.ret = "ALT+CMD+F4"

\* C20: normalize_shortcut raises ValueError for the empty string, a blank
\* string and every string whose parts name no key or more than one key, and
\* accepts every string whose parts name exactly one key; bind_shortcut,
\* unbind_shortcut and resolve_shortcut given a string it rejects raise that
\* error and leave the shortcut index as it was.
C20_InvalidShortcut ==
    [][/\ (last'.op = "normalize_shortcut") =>
              (last'.err = IF Len(KeysTyped(typed.parts)) = 1 THEN None
                           ELSE "ValueError")
       /\ (/\ last'.op \in {"bind_shortcut", "unbind_shortcut", "resolve_shortcut"}
           /\ Len(KeysTyped(typed.parts)) # 1) =>
              /\ last'.err = "ValueError"
              /\ shortcuts' = shortcuts
      ]_vars

\* bind_shortcut of a string naming two keys raised ValueError in a registry
\* that holds the command.
C20_Witness ==
    /\ last.op = "bind_shortcut" /\ last.err = "ValueError"
    /\ typed.parts = <<"Ctrl", "p", "p">>
    /\ last.id \in DOMAIN commands

\* C20: a blank string was rejected by normalize_shortcut.
C20_WitnessBlank ==
    /\ last.op = "normalize_shortcut" /\ last.err = "ValueError"
    /\ typed.parts = <<" ">>

-----------------------------------------------------------------------------
(* Properties of tk_to_canonical under SpecTranslate *)

\* C21 as stated: normalize_shortcut("cmd+,") raises, because the normalizer
\* has no named-punctuation table and does not recognize the comma, whereas
\* tk_to_canonical("<Command-comma>") returns "CMD+,".
C21_CommaRejected ==
    /\ (last.op = "normalize_shortcut" /\ last.key = "cmd+,") =>
          last.err = "ValueError"
    /\ (last.op = "tk_to_canonical" /\ last.key = "<Command-comma>") =>
          last.ret = "CMD+,"

\* C21, amended: normalize_shortcut("cmd+,") returns "CMD+,": the normalizer
\* takes any single token that is not a modifier as the key, the comma
\* included; it has no named-punctuation table, so "cmd+comma" comes out as
\* "CMD+COMMA", whereas tk_to_canonical("<Command-comma>") returns "CMD+,".
C21_CommaAccepted ==
    /\ (last.op = "normalize_shortcut" /\ last.key = "cmd+,") =>
          /\ last.err = None
          /\ last.ret = "CMD+,"
    /\ (last.op = "normalize_shortcut" /\ last.key = "cmd+comma") =>
          /\ last.err = None
          /\ last.ret = "CMD+COMMA"
    /\ (last.op = "tk_to_canonical" /\ last.key = "<Command-comma>") =>
          last.ret = "CMD+,"

\* normalize_shortcut("cmd+,") returned "CMD+,".
C21_Witness ==
    /\ last.op = "normalize_shortcut" /\ last.key = "cmd+,"
    /\ typed.parts = <<"cmd", ",">>
    /\ last.ret = "CMD+,"

\* C21: tk_to_canonical("<Command-comma>") returned "CMD+,".
C21_WitnessTranslated ==
    /\ last.op = "tk_to_canonical" /\ last.key = "<Command-comma>"
    /\ last.ret = "CMD+,"

\* The parts of a composed Tk sequence without its KeyPress / KeyRelease
\* tokens, the Tk sequence of a list of parts, and the parts that name a key.
NoiseToken(part) == part \in {"KeyPress", "KeyRelease"}

Denoised(parts) == SelectSeq(parts, LAMBDA p : ~NoiseToken(p))

Bracketed(parts) == "<" \o Join(parts, "-") \o ">"

TkKeyTokens(parts) ==
    SelectSeq(parts, LAMBDA p : ~NoiseToken(p) /\ p # " " /\ ModifierNamed(p) = None)

C22_WitnessNoKey ==
    /\ last.op = "tk_to_canonical"
    /\ last.key = "<Control-KeyPress>"
    /\ last.ret = "<Control-KeyPress>"

-----------------------------------------------------------------------------
(* Properties of register under Spec *)

\* The key of the shortcut index a command's default shortcut is bound
\* under, None when it declares none or one that normalize_shortcut rejects.
DefaultKey(cmd) ==
    IF Truthy(cmd.shortcut) /\ Normalize(cmd.shortcut).err = None
    THEN Normalize(cmd.shortcut).val
    ELSE None

\* The command a register call was given.
Registered(c) == CHOOSE cmd \in RegCommands : cmd.id = c.id /\ cmd.label = c.key

\* C23: register(command, replace=True) of a registered id removes every
\* shortcut entry that maps to the id: afterwards no shortcut but the new
\* command's default shortcut maps to it (none when it declares none), that
\* one does when the call raised nothing, and get(id) is the new command;
\* the entries of other commands under other shortcuts are as before.
C23_ReplaceDropsOldBindings ==
    [][(last'.op = "register" /\ last'.flag /\ last'.id \in DOMAIN commands) =>
        LET cmd == Registered(last')
        IN  /\ last'.id \in DOMAIN commands'
            /\ commands'[last'.id] = cmd
            /\ \A k \in DOMAIN shortcuts' :
                  shortcuts'[k] = last'.id => k = DefaultKey(cmd)
            /\ (last'.err = None /\ Truthy(cmd.shortcut)) =>
                  /\ DefaultKey(cmd) \in DOMAIN shortcuts'
                  /\ shortcuts'[DefaultKey(cmd)] = last'.id
            /\ \A k \in DOMAIN shortcuts :
                  (shortcuts[k] # last'.id /\ k # DefaultKey(cmd)) =>
                      (k \in DOMAIN shortcuts' /\ shortcuts'[k] = shortcuts[k])
      ]_vars

\* "a" was replaced by a command without a default shortcut: no shortcut
\* maps to "a" any more, while "b" keeps CTRL+Q.
C23_Witness ==
    /\ last.op = "register" /\ last.id = "a" /\ last.key = "A1" /\ last.flag
    /\ last.err = None
    /\ commands["a"] = CmdA1
    /\ shortcuts = ("CTRL+Q" :> "b")

\* C23: "a" was replaced by a command whose default shortcut is CTRL+Q, and
\* CTRL+Q is the only shortcut of "a".
C23_WitnessDefault ==
    /\ last.op = "register" /\ last.id = "a" /\ last.key = "A2" /\ last.flag
    /\ last.err = None
    /\ {k \in DOMAIN shortcuts : shortcuts[k] = "a"} = {"CTRL+Q"}
    /\ "b" \in DOMAIN commands

-----------------------------------------------------------------------------
(* Properties of App.invoke_shortcut under SpecInvoke *)

\* C24: invoke_shortcut accepts a shortcut in canonical style and in Tk
\* style: with the save command bound to CTRL+S, invoking "<Control-s>"
\* resolves to and executes the command that invoking "Ctrl+S" does.
C24_InvokeAcceptsTkStyle ==
    (/\ last.op = "invoke_shortcut"
     /\ last.key \in {"Ctrl+S", "<Control-s>"}
     /\ "CTRL+S" \in DOMAIN shortcuts /\ shortcuts["CTRL+S"] = "a") =>
        /\ last.err = None
        /\ last.id = "a"
        /\ last.ret = "ret:" \o CmdSave.handler
        /\ calls # <<>> /\ calls[Len(calls)] = CmdSave.handler

-----------------------------------------------------------------------------
(* Properties of search under SpecSearch *)

\* The weights of the tests a command passes for the lowered query q, and
\* the score of the scale: the greatest of them, 0 when it passes none.
Weights(cmd, q) ==
    (IF Lower(cmd.id) = q THEN {100} ELSE {})
    \cup (IF Lower(cmd.label) = q THEN {95} ELSE {})
    \cup (IF StartsWith(Lower(cmd.id), q) THEN {85} ELSE {})
    \cup (IF StartsWith(Lower(cmd.label), q) THEN {80} ELSE {})
    \cup (IF Contains(Lower(cmd.id), q) THEN {60} ELSE {})
    \cup (IF Contains(Lower(cmd.label), q) THEN {55} ELSE {})
    \cup (IF Contains(Lower(cmd.description), q) THEN {30} ELSE {})
    \cup (IF Contains(Lower(Join(cmd.tags, " ")), q) THEN {25} ELSE {})
    \cup {0}

ScaleScore(cmd, q) == CHOOSE w \in Weights(cmd, q) : \A v \in Weights(cmd, q) : v <= w

\* Command a comes before command b in the result for q: the higher score,
\* then the lower order field, then the label (compared without regard to
\* case, as the scoring is), then the id.
Before(a, b, q) ==
    \/ ScaleScore(a, q) > ScaleScore(b, q)
    \/ /\ ScaleScore(a, q) = ScaleScore(b, q)
       /\ \/ a.order < b.order
          \/ a.order = b.order /\ StrLess(Lower(a.label), Lower(b.label))
          \/ a.order = b.order /\ Lower(a.label) = Lower(b.label) /\ StrLess(a.id, b.id)

\* The ids of the registered commands that are visible now and score above 0.
Matching(q) ==
    {i \in DOMAIN commands :
        IsVisibleNow(commands[i]) /\ ScaleScore(commands[i], q) > 0}

\* C25: search(query, ctx, limit) returns exactly the visible commands whose
\* score for the stripped, lowered query is not zero, in descending order of
\* score, ties broken by ascending order field, then label, then id, cut to
\* at most limit entries (the first ones of that order; none for a limit
\* below 1); an empty or blank query returns the empty list.
C25_SearchRanksVisibleMatches ==
    (last.op = "search") =>
        LET q == IF last.key = None THEN "" ELSE Lower(Strip(last.key))
            r == last.ret
            n == Cardinality(Matching(q))
        IN  /\ last.err = None
            /\ q = "" => r = <<>>
            /\ q # "" =>
                  /\ Len(r) = IF last.id < 0 THEN 0
                              ELSE IF last.id < n THEN last.id ELSE n
                  /\ \A i \in DOMAIN r : r[i] \in Matching(q)
                  /\ \A i, j \in DOMAIN r :
                        i < j => Before(commands[r[i]], commands[r[j]], q)
                  /\ \A c \in Matching(q) :
                        (\A i \in DOMAIN r : r[i] # c) =>
                            \A i \in DOMAIN r : Before(commands[r[i]], commands[c], q)

\* Every command of the palette is registered, the predicate of one of them
\* holds, and search(" SAVE ", ctx, 25) returned the twelve visible matches
\* in the order of the scale.
C25_Witness ==
    /\ last.op = "search" /\ last.key = " SAVE " /\ last.id = 25
    /\ state.allow
    /\ DOMAIN commands = {c.id : c \in PaletteCommands}
    /\ last.ret = <<"save", "file.write", "save.all", "doc.saveas", "zz.save",
                    "maybe.save", "edit.save", "a.save", "file.save", "auto",
                    "export", "backup">>

\* C25: a limit of 3 cut the result to the first three, and the command
\* whose visibility predicate fails is not among the candidates.
C25_WitnessTruncated ==
    /\ last.op = "search" /\ last.key = "save" /\ last.id = 3
    /\ ~state.allow
    /\ "maybe.save" \in DOMAIN commands
    /\ last.ret = <<"save", "file.write", "save.all">>

-----------------------------------------------------------------------------
(* Properties of the translated key sequences under SpecTranslate *)

\* C26: for every bracketed key sequence made of recognized modifiers and
\* one key token (the key names of the named-punctuation table included),
\* what tk_to_canonical returns is a canonical shortcut: normalize_shortcut
\* accepts it and returns it unchanged, and a KeyMap that holds the sequence
\* can be applied to a registry.
C26_TranslationIsCanonical ==
    (typed.sep = "-" /\ Len(TkKeyTokens(typed.parts)) = 1) =>
        /\ (last.op = "normalize_shortcut.translated") =>
              /\ last.err = None
              /\ last.ret = last.key
        /\ (/\ last.op = "keymap.apply" /\ last.flag
            /\ global_keymap = << <<TypedText, "a">> >>) =>
              /\ last.err = None
              /\ \E k \in DOMAIN shortcuts : shortcuts[k] = "a"

-----------------------------------------------------------------------------
(* Properties of the shortcut index under SpecAlias *)

\* The canonical string of each spelling, None for the one that names no key.
CanonicalOf(s) ==
    CASE s \in {"ctrl+shift+p", "Shift + Control + P", "CTRL+SHIFT+P"} -> "CTRL+SHIFT+P"
      [] s \in {"ctrl+p", "P+ctrl"} -> "CTRL+P"
      [] s = "shift+p" -> "SHIFT+P"
      [] OTHER -> None

\* What the index holds for a spelling: the id under its canonical string.
EntryOf(scs, s) ==
    IF CanonicalOf(s) \in DOMAIN scs THEN scs[CanonicalOf(s)] ELSE None

\* C27: after every registry operation each key of the shortcut index is a
\* canonical shortcut, a fixed point of normalize_shortcut; resolve_shortcut,
\* bind_shortcut and unbind_shortcut address the same entry for two strings
\* exactly when their canonical strings are equal: what one spelling binds
\* or unbinds, every spelling with the same canonical string resolves to,
\* and the spellings with another canonical string resolve as before.
C27_CanonicalKeys ==
    [][/\ \A k \in DOMAIN shortcuts' : normalize_shortcut(k) = Ok(k)
       /\ (/\ last'.op \in {"bind_shortcut", "unbind_shortcut"}
           /\ last'.err = None) =>
              \A s \in Aliases :
                  resolve_shortcut(shortcuts', s).val =
                      IF CanonicalOf(s) = None THEN None
                      ELSE IF CanonicalOf(s) # CanonicalOf(last'.key)
                      THEN EntryOf(shortcuts, s)
                      ELSE IF last'.op = "bind_shortcut" THEN last'.id
                      ELSE None
       /\ (last'.op = "resolve_shortcut" /\ last'.err = None) =>
              /\ last'.ret = EntryOf(shortcuts, last'.key)
              /\ \A s \in Aliases :
                    CanonicalOf(s) = CanonicalOf(last'.key) =>
                        resolve_shortcut(shortcuts, s).val = last'.ret
      ]_vars

\* "Shift + Control + P" was bound to "b" with replace: "ctrl+shift+p"
\* resolves to "b" too, and CTRL+P still belongs to "a".
C27_Witness ==
    /\ last.op = "bind_shortcut" /\ last.key = "Shift + Control + P"
    /\ last.id = "b" /\ last.flag /\ last.err = None
    /\ resolve_shortcut(shortcuts, "ctrl+shift+p").val = "b"
    /\ DOMAIN shortcuts = {"CTRL+SHIFT+P", "CTRL+P"}
    /\ shortcuts["CTRL+P"] = "a"

\* C27: unbind_shortcut("P+ctrl") removed the entry "ctrl+p" had made.
C27_WitnessUnbind ==
    /\ last.op = "unbind_shortcut" /\ last.key = "P+ctrl" /\ last.err = None
    /\ resolve_shortcut(shortcuts, "ctrl+p").val = None
    /\ resolve_shortcut(shortcuts, "CTRL+SHIFT+P").val = "a"

\* C28: register is not atomic with respect to the default shortcut.  A
\* register without replace of an id that is not registered raises
\* ShortcutAlreadyBound when the default shortcut is bound (to another
\* command) and ValueError when it is invalid; the command is in the table
\* all the same, no shortcut maps to it, the shortcut index is as before (the
\* colliding shortcut keeps its owner), and registering the id again without
\* replace raises CommandAlreadyRegistered.
C28_RegisterNotAtomic ==
    [][/\ (/\ last'.op = "register" /\ ~last'.flag
           /\ last'.id # "" /\ last'.id \notin DOMAIN commands) =>
              LET cmd == Registered(last')
              IN  /\ last'.err =
                        IF ~Truthy(cmd.shortcut) THEN None
                        ELSE IF Normalize(cmd.shortcut).err # None THEN "ValueError"
                        ELSE IF DefaultKey(cmd) \in DOMAIN shortcuts
                        THEN "ShortcutAlreadyBound"
                        ELSE None
                  /\ last'.err # None =>
                        /\ has(commands', last'.id)
                        /\ commands'[last'.id] = cmd
                        /\ \A k \in DOMAIN shortcuts' : shortcuts'[k] # last'.id
                        /\ shortcuts' = shortcuts
                        /\ \A i \in DOMAIN commands : commands'[i] = commands[i]
       /\ (/\ last.op = "register" /\ last.id # ""
           /\ last.err \in {"ShortcutAlreadyBound", "ValueError"}
           /\ last'.op = "register" /\ last'.id = last.id /\ ~last'.flag) =>
              /\ last'.err = "CommandAlreadyRegistered"
              /\ UNCHANGED <<commands, shortcuts>>
      ]_vars

\* register of B1, whose default shortcut CTRL+Q belongs to "a", raised
\* ShortcutAlreadyBound; "b" is registered without a shortcut and CTRL+Q
\* still resolves to "a".
C28_Witness ==
    /\ last.op = "register" /\ last.id = "b" /\ last.key = "B1" /\ ~last.flag
    /\ last.err = "ShortcutAlreadyBound"
    /\ has(commands, "b") /\ commands["b"] = CmdB1
    /\ \A k \in DOMAIN shortcuts : shortcuts[k] # "b"
    /\ resolve_shortcut(shortcuts, "ctrl+q").val = "a"

\* C28: register of B2, whose default shortcut is invalid, raised ValueError
\* and left "b" registered.
C28_WitnessInvalid ==
    /\ last.op = "register" /\ last.id = "b" /\ last.key = "B2" /\ ~last.flag
    /\ last.err = "ValueError"
    /\ has(commands, "b") /\ commands["b"] = CmdB2
    /\ \A k \in DOMAIN shortcuts : shortcuts[k] # "b"

\* C29: register with replace passes replace on to the binding of the default
\* shortcut.  When the default shortcut is bound to another command B,
\* register with replace raises nothing, the shortcut resolves to the
\* registered command afterwards, B stays registered as it was, and the
\* bindings of other shortcuts to other commands are kept; the id may or may
\* not have been registered before.
C29_ReplaceTakesOverShortcut ==
    [][(/\ last'.op = "register" /\ last'.flag /\ last'.id # ""
        /\ Truthy(Registered(last').shortcut)
        /\ Normalize(Registered(last').shortcut).err = None
        /\ DefaultKey(Registered(last')) \in DOMAIN shortcuts
        /\ shortcuts[DefaultKey(Registered(last'))] # last'.id) =>
           LET cmd == Registered(last')
               key == DefaultKey(cmd)
               B   == shortcuts[key]
           IN  /\ last'.err = None
               /\ has(commands', last'.id) /\ commands'[last'.id] = cmd
               /\ shortcuts'[key] = last'.id
               /\ resolve_shortcut(shortcuts', cmd.shortcut).val = last'.id
               /\ B \in DOMAIN commands
               /\ has(commands', B) /\ commands'[B] = commands[B]
               /\ \A k \in DOMAIN shortcuts' : shortcuts'[k] = B => shortcuts[k] = B
               /\ \A k \in DOMAIN shortcuts :
                     (k # key /\ shortcuts[k] # last'.id) =>
                        (k \in DOMAIN shortcuts' /\ shortcuts'[k] = shortcuts[k])
      ]_vars

\* register of B1 with replace, "b" not registered before, while CTRL+Q
\* belonged to "a": CTRL+Q now resolves to "b" and "a" is still registered.
C29_Witness ==
    /\ last.op = "register" /\ last.id = "b" /\ last.key = "B1" /\ last.flag
    /\ last.err = None
    /\ calls = <<>>
    /\ DOMAIN commands = {"a", "b"}
    /\ commands["a"] = CmdA2
    /\ DOMAIN shortcuts = {"CTRL+Q"}
    /\ shortcuts["CTRL+Q"] = "b"

\* C29: register of A2 with replace over a registered "a", while CTRL+Q
\* belonged to "b" and CMD+K to "a": CTRL+Q moves to "a", the old binding of
\* "a" is gone and "b" is still registered.
C29_WitnessReregistered ==
    /\ last.op = "register" /\ last.id = "a" /\ last.key = "A2" /\ last.flag
    /\ last.err = None
    /\ DOMAIN commands = {"a", "b"}
    /\ commands["b"] = CmdB1
    /\ DOMAIN shortcuts = {"CTRL+Q"}
    /\ shortcuts["CTRL+Q"] = "a"

\* The shortcut index after the first n pairs of km were bound over scs, each
\* under its canonical key, a later pair taking the key of an earlier one.
AfterPairs(km, n, scs) ==
    LET keys == {PairKey(km[i]) : i \in 1..n}
    IN  [k \in keys \cup DOMAIN scs |->
            IF k \in keys
            THEN km[CHOOSE i \in 1..n :
                        /\ PairKey(km[i]) = k
                        /\ \A j \in 1..n : PairKey(km[j]) = k => j <= i][2]
            ELSE scs[k]]

\* C30: KeyMap.apply is not atomic.  When apply onto a CommandRegistry raises,
\* the error is the one bind_shortcut raises for some pair n (CommandNotFound,
\* ValueError or ShortcutAlreadyBound); the pairs before n are bound, in
\* insertion order, the index is otherwise as before the call (no pair after n
\* is bound), and the KeyMap and the command table are unchanged.
C30_ApplyStopsAtFirstError ==
    [][(/\ last'.op = "keymap.apply" /\ last'.id = "CommandRegistry"
        /\ last'.err # None) =>
           /\ global_keymap' = global_keymap
           /\ commands' = commands
           /\ \E n \in DOMAIN global_keymap :
                 /\ \A i \in 1..(n - 1) :
                       /\ global_keymap[i][2] \in DOMAIN commands
                       /\ Normalize(TkToCanonical(global_keymap[i][1])).err = None
                 /\ shortcuts' = AfterPairs(global_keymap, n - 1, shortcuts)
                 /\ last'.err =
                       IF global_keymap[n][2] \notin DOMAIN commands
                       THEN "CommandNotFound"
                       ELSE IF Normalize(TkToCanonical(global_keymap[n][1])).err # None
                       THEN "ValueError"
                       ELSE "ShortcutAlreadyBound"
                 /\ last'.err = "ShortcutAlreadyBound" =>
                       /\ ~last'.flag
                       /\ PairKey(global_keymap[n]) \in DOMAIN shortcuts'
      ]_vars

\* The second of three pairs translates to CTRL++, which is no shortcut: apply
\* raised ValueError, CMD+Q of the first pair is bound and CMD+K of the third
\* is not.
C30_Witness ==
    /\ last.op = "keymap.apply" /\ last.id = "CommandRegistry"
    /\ last.err = "ValueError"
    /\ global_keymap = KeyMapBadMiddle
    /\ resolve_shortcut(shortcuts, "CMD+Q").val = "a"
    /\ "CMD+K" \notin DOMAIN shortcuts

\* C30: the second pair names an unregistered command.
C30_WitnessUnknownCommand ==
    /\ last.op = "keymap.apply" /\ last.id = "CommandRegistry"
    /\ last.err = "CommandNotFound"
    /\ global_keymap = KeyMapUnknownMiddle
    /\ resolve_shortcut(shortcuts, "CMD+Q").val = "a"
    /\ "CTRL+Q" \notin DOMAIN shortcuts

\* C30: the second pair's shortcut was taken by the first pair.
C30_WitnessAlreadyBound ==
    /\ last.op = "keymap.apply" /\ last.id = "CommandRegistry"
    /\ last.err = "ShortcutAlreadyBound" /\ ~last.flag
    /\ global_keymap = KeyMapClashMiddle
    /\ resolve_shortcut(shortcuts, "CTRL+Q").val = "a"
    /\ "CMD+K" \notin DOMAIN shortcuts

====
